---- MODULE Spec2Model ----
(***************************************************************************)
(* Model of repull's update engine: runOnce (list, filter, group),         *)
(* UpdateGroups, RecreateContainer, CreateAndStartContainer,               *)
(* resolveNetworkMode, waitForContainerRemoval and the digest helpers,     *)
(* running against a Docker daemon whose calls may fail.                   *)
(***************************************************************************)
EXTENDS Integers, Sequences, FiniteSets, TLC

VARIABLES
    daemon,     \* container id -> container (State "removed" = no longer exists,
                \* "exited" = stopped through the API, "died" = its process exited)
    images,     \* local image store: image reference -> [RepoDigests, ID]
    registry,   \* what a pull of the reference would fetch
    cfg,        \* [dryRun, notifier, selfID, ownID]: flags, the container the process
                \* runs in ("" on the host) and what detectOwnContainerID returned
    pc,         \* position of the control flow
    groups,     \* argument of UpdateGroups: group key -> sequence of snapshots
    todo,       \* group keys the range loop has not visited yet
    cur,        \* loop locals of UpdateGroups
    rc,         \* locals of the running RecreateContainer / CreateAndStartContainer
    recreated,  \* RecreatedContainers: old id -> new id
    calls,      \* daemon calls issued so far, in order
    notes,      \* notifications handed to the notifier, in order
    fnIn,       \* input of the pure function under check
    fnOut       \* its output

vars == <<daemon, images, registry, cfg, pc, groups, todo, cur, rc, recreated,
          calls, notes, fnIn, fnOut>>

-----------------------------------------------------------------------------
(* Bounds *)

NumContainers == 2      \* containers on the daemon at the start of a run
MaxPolls == 2           \* polls of waitForContainerRemoval that are modelled
MaxLen == 2             \* length of the input list of the pure grouping check

-----------------------------------------------------------------------------
(* Strings *)

HasPrefix(s, p) == Len(s) >= Len(p) /\ SubSeq(s, 1, Len(p)) = p

TrimPrefix(s, p) == IF HasPrefix(s, p) THEN SubSeq(s, Len(p) + 1, Len(s)) ELSE s

ShortLen == 12

shortID(id) == IF Len(id) > ShortLen THEN SubSeq(id, 1, ShortLen) ELSE id

EnableLabel == "io.repull.enable"
ComposeProjectLabel == "com.docker.compose.project"
ComposeServiceLabel == "com.docker.compose.service"

NoLabels == <<>>

Tail52 == "0000000000000000000000000000000000000000000000000000"

Twelve(d) == d \o d \o d \o d \o d \o d \o d \o d \o d \o d \o d \o d

\* the ids of the containers that exist when the run starts
OldId(i) == Twelve(<<"a", "b", "c", "d", "e">>[i]) \o Tail52

\* the id the daemon gives to the n-th container created in the run
FreshId(n) == Twelve(<<"1", "2", "3", "4", "5", "6", "7", "8", "9">>[n]) \o Tail52

ContainerNames == <<"/web", "/db", "/cache", "/proxy", "/worker">>

SeqToSet(s) == {s[i] : i \in 1..Len(s)}

SetToSeqs(S) == {s \in [1..Cardinality(S) -> S] : SeqToSet(s) = S}

-----------------------------------------------------------------------------
(* Digests *)

\* variants with a slip: every group counts as changed; an empty (unknown) side
\* counts as unchanged; an unknown old digest counts as unchanged
HasDigestChangedAlways(oldDigest, newDigest) == TRUE

HasDigestChangedNonEmpty(oldDigest, newDigest) ==
    oldDigest # newDigest /\ oldDigest # "" /\ newDigest # ""

HasDigestChangedKnown(oldDigest, newDigest) == oldDigest # newDigest /\ oldDigest # ""

HasDigestChanged(oldDigest, newDigest) == oldDigest # newDigest

\* GetImageDigest on a successful image inspect
DigestOf(inspect) ==
    IF Len(inspect.RepoDigests) > 0 THEN inspect.RepoDigests[1] ELSE inspect.ID

-----------------------------------------------------------------------------
(* Filtering and grouping *)

\* c.Config != nil && c.Config.Labels != nil && the key is in the map
HasLabel(c, k) == c.HasConfig /\ c.HasLabels /\ k \in DOMAIN c.Labels

\* variant with a slip: every value other than "false" opts the container in
FilterOptedInContainersTruthy(containers) ==
    SelectSeq(containers,
              LAMBDA c : HasLabel(c, EnableLabel) /\ c.Labels[EnableLabel] # "false")

FilterOptedInContainers(containers) ==
    SelectSeq(containers,
              LAMBDA c : HasLabel(c, EnableLabel) /\ c.Labels[EnableLabel] = "true")

getGroupKey(c) ==
    IF ~c.HasConfig \/ ~c.HasLabels
    THEN "standalone:" \o c.ID
    ELSE IF /\ ComposeProjectLabel \in DOMAIN c.Labels
            /\ ComposeServiceLabel \in DOMAIN c.Labels
            /\ c.Labels[ComposeProjectLabel] # ""
            /\ c.Labels[ComposeServiceLabel] # ""
         THEN c.Labels[ComposeProjectLabel] \o ":" \o c.Labels[ComposeServiceLabel]
         ELSE "standalone:" \o c.ID

\* variant with a slip: the container is put in front of its group
RECURSIVE GroupLoopPrepend(_, _)
GroupLoopPrepend(containers, acc) ==
    IF containers = <<>> THEN acc
    ELSE LET c == Head(containers)
             key == getGroupKey(c)
         IN GroupLoopPrepend(Tail(containers),
                             IF key \in DOMAIN acc
                             THEN [acc EXCEPT ![key] = <<c>> \o @]
                             ELSE acc @@ (key :> <<c>>))

\* variant with a slip: the group is overwritten instead of appended to
RECURSIVE GroupLoopOverwrite(_, _)
GroupLoopOverwrite(containers, acc) ==
    IF containers = <<>> THEN acc
    ELSE LET c == Head(containers)
             key == getGroupKey(c)
         IN GroupLoopOverwrite(Tail(containers),
                               IF key \in DOMAIN acc
                               THEN [acc EXCEPT ![key] = <<c>>]
                               ELSE acc @@ (key :> <<c>>))

RECURSIVE GroupLoop(_, _)
GroupLoop(containers, acc) ==
    IF containers = <<>> THEN acc
    ELSE LET c == Head(containers)
             key == getGroupKey(c)
         IN GroupLoop(Tail(containers),
                      IF key \in DOMAIN acc
                      THEN [acc EXCEPT ![key] = Append(@, c)]
                      ELSE acc @@ (key :> <<c>>))

GroupByComposeService(containers) == GroupLoop(containers, <<>>)

-----------------------------------------------------------------------------
(* The daemon *)

Exists(id) == id \in DOMAIN daemon /\ daemon[id].State # "removed"

LiveIds == {id \in DOMAIN daemon : daemon[id].State # "removed"}

NormName(n) == IF HasPrefix(n, "/") THEN n ELSE "/" \o n

NameInUse(n) == \E id \in LiveIds : daemon[id].Name = NormName(n)

\* ContainerInspect(ref): the daemon looks a reference up as a full id, then as a
\* name, then as a unique id prefix
InspectRef(ref) ==
    IF ref = "" THEN {}
    ELSE IF ref \in LiveIds THEN {ref}
    ELSE LET byName == {id \in LiveIds : daemon[id].Name = NormName(ref)}
             byPrefix == {id \in LiveIds : HasPrefix(id, ref)}
         IN IF byName # {} THEN byName
            ELSE IF Cardinality(byPrefix) = 1 THEN byPrefix ELSE {}

\* a daemon call: who issued it, while handling which group, on behalf of which
\* container (or group), on which target, with which result and returned value
Call(op, by, for, target, res, val) ==
    [op |-> op, by |-> by, group |-> cur.groupKey, for |-> for, target |-> target,
     res |-> res, val |-> val]

MutationOps == {"stop", "remove", "rename", "create", "connect", "start"}

Created == Cardinality({i \in 1..Len(calls) : calls[i].op = "create" /\ calls[i].res = "ok"})

-----------------------------------------------------------------------------
(* resolveNetworkMode: the set of results the call can return (the range over *)
(* the Recreation Map visits its entries in any order)                        *)

\* variant with a slip: a reference that nothing resolves falls back to the
\* default network
resolveNetworkModeFallback(mode, rec) ==
    IF ~HasPrefix(mode, "container:") THEN {mode}
    ELSE LET ref == TrimPrefix(mode, "container:")
             partial == {oldID \in DOMAIN rec :
                            HasPrefix(oldID, ref) \/ HasPrefix(ref, shortID(oldID))}
             byName == {id \in LiveIds :
                            \/ TrimPrefix(daemon[id].Name, "/") = ref
                            \/ daemon[id].Name = ref}
         IN IF ref \in DOMAIN rec THEN {"container:" \o rec[ref]}
            ELSE IF partial # {} THEN {"container:" \o rec[oldID] : oldID \in partial}
            ELSE IF InspectRef(ref) # {} THEN {"container:" \o id : id \in InspectRef(ref)}
            ELSE IF byName # {} THEN {"container:" \o id : id \in byName}
            ELSE {"bridge"}

\* variant with a slip: the daemon is asked first, the map only for a reference
\* the daemon does not know
resolveNetworkModeDaemonFirst(mode, rec) ==
    IF ~HasPrefix(mode, "container:") THEN {mode}
    ELSE LET ref == TrimPrefix(mode, "container:")
             partial == {oldID \in DOMAIN rec :
                            HasPrefix(oldID, ref) \/ HasPrefix(ref, shortID(oldID))}
             byName == {id \in LiveIds :
                            \/ TrimPrefix(daemon[id].Name, "/") = ref
                            \/ daemon[id].Name = ref}
         IN IF InspectRef(ref) # {} THEN {"container:" \o id : id \in InspectRef(ref)}
            ELSE IF ref \in DOMAIN rec THEN {"container:" \o rec[ref]}
            ELSE IF partial # {} THEN {"container:" \o rec[oldID] : oldID \in partial}
            ELSE IF byName # {} THEN {"container:" \o id : id \in byName}
            ELSE {mode}

\* variant with a slip: a reference found in the map is rewritten to the short id
\* of the replacement
resolveNetworkModeShort(mode, rec) ==
    IF ~HasPrefix(mode, "container:") THEN {mode}
    ELSE LET ref == TrimPrefix(mode, "container:")
             partial == {oldID \in DOMAIN rec :
                            HasPrefix(oldID, ref) \/ HasPrefix(ref, shortID(oldID))}
             byName == {id \in LiveIds :
                            \/ TrimPrefix(daemon[id].Name, "/") = ref
                            \/ daemon[id].Name = ref}
         IN IF ref \in DOMAIN rec THEN {"container:" \o shortID(rec[ref])}
            ELSE IF partial # {} THEN {"container:" \o rec[oldID] : oldID \in partial}
            ELSE IF InspectRef(ref) # {} THEN {"container:" \o id : id \in InspectRef(ref)}
            ELSE IF byName # {} THEN {"container:" \o id : id \in byName}
            ELSE {mode}

resolveNetworkMode(mode, rec) ==
    IF ~HasPrefix(mode, "container:") THEN {mode}
    ELSE LET ref == TrimPrefix(mode, "container:")
             partial == {oldID \in DOMAIN rec :
                            HasPrefix(oldID, ref) \/ HasPrefix(ref, shortID(oldID))}
             byName == {id \in LiveIds :
                            \/ TrimPrefix(daemon[id].Name, "/") = ref
                            \/ daemon[id].Name = ref}
         IN IF ref \in DOMAIN rec THEN {"container:" \o rec[ref]}
            ELSE IF partial # {} THEN {"container:" \o rec[oldID] : oldID \in partial}
            ELSE IF InspectRef(ref) # {} THEN {"container:" \o id : id \in InspectRef(ref)}
            ELSE IF byName # {} THEN {"container:" \o id : id \in byName}
            ELSE {mode}

\* the daemon accepts a container-scoped network mode only if the reference resolves
ModeUsable(mode) ==
    HasPrefix(mode, "container:") => InspectRef(TrimPrefix(mode, "container:")) # {}

-----------------------------------------------------------------------------
(* Self detection *)

IdLen == 64

isSelf(containerID) ==
    IF Len(cfg.ownID) = IdLen THEN containerID = cfg.ownID
    ELSE HasPrefix(containerID, cfg.ownID)

(* strings.IndexByte from position `from` on: 0 when ch does not occur *)
RECURSIVE IndexByte(_, _, _)
IndexByte(s, ch, from) ==
    IF from > Len(s) THEN 0
    ELSE IF SubSeq(s, from, from) = ch THEN from
    ELSE IndexByte(s, ch, from + 1)

RECURSIVE LastIndexByteFrom(_, _, _)
LastIndexByteFrom(s, ch, i) ==
    IF i < 1 THEN 0
    ELSE IF SubSeq(s, i, i) = ch THEN i
    ELSE LastIndexByteFrom(s, ch, i - 1)

LastIndexByte(s, ch) == LastIndexByteFrom(s, ch, Len(s))

TrimSuffix(s, suf) ==
    IF Len(s) >= Len(suf) /\ SubSeq(s, Len(s) - Len(suf) + 1, Len(s)) = suf
    THEN SubSeq(s, 1, Len(s) - Len(suf))
    ELSE s

(* strings.Split(s, "\n"): the lines of the file, the last one possibly empty *)
RECURSIVE SplitLines(_)
SplitLines(s) ==
    LET i == IndexByte(s, "\n", 1)
    IN  IF i = 0 THEN <<s>>
        ELSE <<SubSeq(s, 1, i - 1)>> \o SplitLines(SubSeq(s, i + 1, Len(s)))

(* strings.SplitN(line, ":", 3): at most three fields, the third keeps its colons *)
SplitN3(line) ==
    LET i == IndexByte(line, ":", 1)
        j == IF i = 0 THEN 0 ELSE IndexByte(line, ":", i + 1)
    IN  IF i = 0 THEN <<line>>
        ELSE IF j = 0 THEN <<SubSeq(line, 1, i - 1), SubSeq(line, i + 1, Len(line))>>
        ELSE <<SubSeq(line, 1, i - 1), SubSeq(line, i + 1, j - 1),
               SubSeq(line, j + 1, Len(line))>>

HexDigits == {"0", "1", "2", "3", "4", "5", "6", "7", "8", "9",
              "a", "b", "c", "d", "e", "f"}

isContainerID(s) ==
    /\ Len(s) = IdLen
    /\ \A i \in 1..Len(s) : SubSeq(s, i, i) \in HexDigits

(* the last segment of a cgroup line's path, without the systemd scope wrapper *)
cgroupSegment(line) ==
    LET path == SplitN3(line)[3]
        i == LastIndexByte(path, "/")
        segment == IF i > 0 THEN SubSeq(path, i + 1, Len(path)) ELSE path
    IN  TrimPrefix(TrimSuffix(segment, ".scope"), "docker-")

RECURSIVE firstContainerID(_)
firstContainerID(lines) ==
    IF lines = <<>> THEN ""
    ELSE IF Len(SplitN3(Head(lines))) = 3 /\ isContainerID(cgroupSegment(Head(lines)))
    THEN cgroupSegment(Head(lines))
    ELSE firstContainerID(Tail(lines))

detectOwnContainerIDHostnameOnly(cgroup, hostname) == hostname

(* cgroup = [err, data]: the result of reading /proc/self/cgroup; hostname is
   what os.Hostname returns, "" when it fails *)
detectOwnContainerID(cgroup, hostname) ==
    LET found == IF cgroup.err THEN "" ELSE firstContainerID(SplitLines(cgroup.data))
    IN  IF found # "" THEN found ELSE hostname

-----------------------------------------------------------------------------
(* Initial states of a run *)

NginxLocal == [RepoDigests |-> <<"sha256:aaa">>, ID |-> "sha256:img1"]
NginxNewer == [RepoDigests |-> <<"sha256:bbb">>, ID |-> "sha256:img3"]
RedisLocal == [RepoDigests |-> <<>>, ID |-> "sha256:img2"]
RedisNewer == [RepoDigests |-> <<"sha256:ccc">>, ID |-> "sha256:img4"]

\* the first container is the one the others may share the network namespace of;
\* the first two containers vary in every attribute, the further ones are opted-in
\* standalone containers that may depend on the first
OptInChoices(i) == IF i <= 2 THEN {NoLabels, EnableLabel :> "true"} ELSE {EnableLabel :> "true"}

ComposeChoices(i) ==
    IF i <= 2
    THEN {NoLabels, (ComposeProjectLabel :> "myapp") @@ (ComposeServiceLabel :> "web")}
    ELSE {NoLabels}

ImageChoices(i) ==
    IF i = 1 THEN {"nginx:latest"}
    ELSE IF i = 2 THEN {"nginx:latest", "redis:7"}
    ELSE {"redis:7"}

ModeChoices(i) == IF i = 1 THEN {"bridge"} ELSE {"bridge", "container:" \o OldId(1)}

NetworksOf(i, mode) ==
    IF mode # "bridge" THEN <<>>
    ELSE IF i = 1 THEN ("backend" :> "web.backend") @@ ("frontend" :> "web.frontend")
    ELSE ("backend" :> "alias.backend")

\* HostConfig.RestartPolicy; only the first container, the one the updater may run
\* in, comes with both kinds
PolicyChoices(i) == IF i = 1 THEN {"no", "unless-stopped"} ELSE {"no"}

\* Config.Hostname of the snapshot
HostnameOf(i) == TrimPrefix(ContainerNames[i], "/") \o "-host"

ContainerChoices(i) ==
    {[ID |-> OldId(i), Name |-> ContainerNames[i], HasConfig |-> TRUE,
      HasLabels |-> TRUE, Labels |-> o @@ c, Image |-> img, NetworkMode |-> m,
      Networks |-> NetworksOf(i, m), RestartPolicy |-> p, State |-> "running",
      Hostname |-> HostnameOf(i)] :
        o \in OptInChoices(i), c \in ComposeChoices(i), img \in ImageChoices(i),
        m \in ModeChoices(i), p \in PolicyChoices(i)}

\* where the process runs and what detectOwnContainerID returns: on the host (the
\* host's name); in the first container with its id in /proc/self/cgroup; in the
\* first container with no id in the cgroup file and an overridden hostname
IdentityChoices ==
    {[selfID |-> "", ownID |-> "repull-host"],
     [selfID |-> OldId(1), ownID |-> OldId(1)],
     [selfID |-> OldId(1), ownID |-> "repull-host"]}

NoCur == [groupKey |-> "", containers |-> <<>>, imageName |-> "", oldDigest |-> "",
          newDigest |-> "", idx |-> 0, deps |-> <<>>]

NoRc == [kind |-> "none", c |-> <<>>, name |-> "", newID |-> "", addl |-> <<>>,
         polls |-> 0]

OldIds == {OldId(i) : i \in 1..NumContainers}

Init ==
    /\ daemon \in {d \in [OldIds -> UNION {ContainerChoices(i) : i \in 1..NumContainers}] :
                      \A id \in OldIds : d[id].ID = id}
    /\ images = ("nginx:latest" :> NginxLocal) @@ ("redis:7" :> RedisLocal)
    /\ registry \in {("nginx:latest" :> n) @@ ("redis:7" :> RedisNewer) :
                        n \in {NginxLocal, NginxNewer}}
    /\ cfg \in {[dryRun |-> d, notifier |-> n, selfID |-> x.selfID, ownID |-> x.ownID] :
                    d \in BOOLEAN, n \in BOOLEAN, x \in IdentityChoices}
    /\ cfg.selfID = "" => daemon[OldId(1)].RestartPolicy = "no"
    /\ pc = "start"
    /\ groups = <<>>
    /\ todo = {}
    /\ cur = NoCur
    /\ rc = NoRc
    /\ recreated = <<>>
    /\ calls = <<>>
    /\ notes = <<>>
    /\ fnIn = <<>>
    /\ fnOut = <<>>

envVars == <<images, registry, cfg>>
fnVars == <<fnIn, fnOut>>

-----------------------------------------------------------------------------
(* Notifications: every Send is guarded by notifier != nil *)

SendError(group, msg) ==
    IF cfg.notifier THEN Append(notes, [kind |-> "error", group |-> group, msg |-> msg])
    ELSE notes

\* variant with a slip: the two digests change places
SendUpdateSwapped(group, image, oldDigest, newDigest) ==
    IF cfg.notifier
    THEN Append(notes, [kind |-> "update", group |-> group, image |-> image,
                        old |-> newDigest, new |-> oldDigest])
    ELSE notes

SendUpdate(group, image, oldDigest, newDigest) ==
    IF cfg.notifier
    THEN Append(notes, [kind |-> "update", group |-> group, image |-> image,
                        old |-> oldDigest, new |-> newDigest])
    ELSE notes

-----------------------------------------------------------------------------
(* runOnce: list the running containers, filter, group, hand over to UpdateGroups *)

RunOnce ==
    /\ pc = "start"
    /\ \/ /\ pc' = "failed"
          /\ calls' = Append(calls, Call("list", "runOnce", "", "", "err", ""))
          /\ UNCHANGED <<groups, todo>>
       \/ \E order \in SetToSeqs({id \in LiveIds : daemon[id].State = "running"}) :
            LET containers == [i \in 1..Len(order) |-> daemon[order[i]]]
                optedIn == FilterOptedInContainers(containers)
            IN /\ calls' = Append(calls, Call("list", "runOnce", "", "", "ok", ""))
               /\ IF Len(optedIn) = 0
                  THEN pc' = "done" /\ UNCHANGED <<groups, todo>>
                  ELSE /\ groups' = GroupByComposeService(optedIn)
                       /\ todo' = DOMAIN groups'
                       /\ pc' = "loop"
    /\ UNCHANGED <<daemon, envVars, cur, rc, recreated, notes, fnVars>>

-----------------------------------------------------------------------------
(* UpdateGroups: the range over the groups and the digest check of one group *)

\* for groupKey, containers := range groups (a Go map: any order)
NextGroup ==
    /\ pc = "loop"
    /\ todo # {}
    /\ \E key \in todo :
         /\ todo' = todo \ {key}
         /\ IF Len(groups[key]) = 0
            THEN UNCHANGED <<pc, cur>>
            ELSE /\ cur' = [NoCur EXCEPT !.groupKey = key,
                                         !.containers = groups[key],
                                         !.imageName = groups[key][1].Image]
                 /\ pc' = "oldDigest"
    /\ UNCHANGED <<daemon, envVars, groups, rc, recreated, calls, notes, fnVars>>

\* the range is exhausted: return nil
Finish ==
    /\ pc = "loop"
    /\ todo = {}
    /\ pc' = "done"
    /\ UNCHANGED <<daemon, envVars, groups, todo, cur, rc, recreated, calls, notes, fnVars>>

\* variant with a slip: the failed lookup aborts the run
OnOldDigestErrorAbort == "failed"

\* GetImageDigest before the pull; on an error the old digest is "" and the run
\* goes on to the pull
OnOldDigestError == "pull"

GetOldDigest ==
    /\ pc = "oldDigest"
    /\ \/ /\ cur.imageName \in DOMAIN images
          /\ cur' = [cur EXCEPT !.oldDigest = DigestOf(images[cur.imageName])]
          /\ calls' = Append(calls, Call("imageInspect", "UpdateGroups", cur.groupKey,
                                         cur.imageName, "ok", DigestOf(images[cur.imageName])))
          /\ pc' = "pull"
       \/ /\ cur' = [cur EXCEPT !.oldDigest = ""]
          /\ calls' = Append(calls, Call("imageInspect", "UpdateGroups", cur.groupKey,
                                         cur.imageName, "err", ""))
          /\ pc' = OnOldDigestError
    /\ UNCHANGED <<daemon, envVars, groups, todo, rc, recreated, notes, fnVars>>

\* variant with a slip: the group is skipped and the range goes on
OnPullErrorSkip == "loop"

\* a failed pull: error notification and return of the error
OnPullError == "failed"

PullGroupImage ==
    /\ pc = "pull"
    /\ \/ /\ images' = [images EXCEPT ![cur.imageName] = registry[cur.imageName]]
          /\ calls' = Append(calls, Call("pull", "UpdateGroups", cur.groupKey,
                                         cur.imageName, "ok", ""))
          /\ pc' = "newDigest"
          /\ UNCHANGED notes
       \/ /\ calls' = Append(calls, Call("pull", "UpdateGroups", cur.groupKey,
                                         cur.imageName, "err", ""))
          /\ notes' = SendError(cur.groupKey, "Failed to pull image")
          /\ pc' = OnPullError
          /\ UNCHANGED images
    /\ UNCHANGED <<daemon, registry, cfg, groups, todo, cur, rc, recreated, fnVars>>

\* variant with a slip: the dry-run check is missing
AfterCompareNoDryRun(oldDigest, newDigest) ==
    IF ~HasDigestChanged(oldDigest, newDigest) THEN "loop" ELSE "member"

\* what follows the second lookup: skip an unchanged group, skip in dry-run,
\* otherwise recreate the containers of the group
AfterCompare(oldDigest, newDigest) ==
    IF ~HasDigestChanged(oldDigest, newDigest) THEN "loop"
    ELSE IF cfg.dryRun THEN "loop"
    ELSE "member"

\* a failed lookup after the pull: error notification and return of the error
OnNewDigestError == "failed"

\* GetImageDigest after the pull, the comparison and the dry-run check
GetNewDigest ==
    /\ pc = "newDigest"
    /\ \/ LET newDigest == DigestOf(images[cur.imageName])
          IN /\ calls' = Append(calls, Call("imageInspect", "UpdateGroups", cur.groupKey,
                                            cur.imageName, "ok", newDigest))
             /\ cur' = [cur EXCEPT !.newDigest = newDigest, !.idx = 1]
             /\ pc' = AfterCompare(cur.oldDigest, newDigest)
             /\ UNCHANGED notes
       \/ /\ calls' = Append(calls, Call("imageInspect", "UpdateGroups", cur.groupKey,
                                         cur.imageName, "err", ""))
          /\ notes' = SendError(cur.groupKey, "Failed to get digest")
          /\ pc' = OnNewDigestError
          /\ UNCHANGED cur
    /\ UNCHANGED <<daemon, envVars, groups, todo, rc, recreated, fnVars>>

-----------------------------------------------------------------------------
(* UpdateGroups: the loop over the containers of a changed group *)

\* variant with a slip: RecreateContainer relies on the pull of UpdateGroups
RecreateEntryNoPull == "rcStop"

\* RecreateContainer begins with a pull of the container's image
RecreateEntry == "rcPull"

containerName(c) ==
    IF TrimPrefix(c.Name, "/") = "" THEN shortID(c.ID) ELSE TrimPrefix(c.Name, "/")

\* variant with a slip: the slice is walked from its end
MemberAtReversed(containers, idx) == containers[Len(containers) + 1 - idx]

\* the idx-th container the range over the slice visits
MemberAt(containers, idx) == containers[idx]

\* for _, c := range containers: the self-update branch or RecreateContainer
BeginMember ==
    /\ pc = "member"
    /\ cur.idx <= Len(cur.containers)
    /\ LET c == MemberAt(cur.containers, cur.idx)
       IN IF isSelf(c.ID)
          THEN /\ rc' = [NoRc EXCEPT !.kind = "self", !.c = c, !.name = containerName(c)]
               /\ pc' = "selfRename"
          ELSE /\ rc' = [NoRc EXCEPT !.kind = "member", !.c = c, !.name = c.Name]
               /\ pc' = RecreateEntry
    /\ UNCHANGED <<daemon, envVars, groups, todo, cur, recreated, calls, notes, fnVars>>

\* all containers of the group are recreated: the success notification
GroupDone ==
    /\ pc = "member"
    /\ cur.idx > Len(cur.containers)
    /\ notes' = SendUpdate(cur.groupKey, cur.imageName, cur.oldDigest, cur.newDigest)
    /\ pc' = "loop"
    /\ UNCHANGED <<daemon, envVars, groups, todo, cur, rc, recreated, calls, fnVars>>

-----------------------------------------------------------------------------
(* RecreateContainer, one daemon call per step *)

RcBy == IF rc.kind = "self" THEN "CreateAndStartContainer" ELSE "RecreateContainer"

RcCall(op, target, res) == Append(calls, Call(op, RcBy, rc.c.ID, target, res, ""))

\* return "", err: a group member's failure aborts the run with an error
\* notification, a dependent's failure is logged and skipped, and a failure of
\* CreateAndStartContainer takes the self-update to its rollback
\* variant with a slip: the failure of a dependent ends the run
OnDepErrorAbort == "failed"

\* a dependent that could not be recreated is logged and skipped (continue)
OnDepError == "deps"

\* variant with a slip: the failure of a member is notified and the run goes on
\* with the next group
OnMemberErrorSkip == "loop"

\* return fmt.Errorf("failed to recreate container ..."): the run is over
OnMemberError == "failed"

RcFail ==
    /\ recreated' = recreated
    /\ IF rc.kind = "dep"
       THEN pc' = OnDepError /\ notes' = notes /\ rc' = NoRc
       ELSE IF rc.kind = "self"
       THEN pc' = "selfRollback" /\ notes' = notes /\ rc' = rc
       ELSE /\ pc' = OnMemberError
            /\ notes' = SendError(cur.groupKey, "Failed to recreate container")
            /\ rc' = NoRc

\* variant with a slip: the entry is written the other way round
trackReversed(rec, oldID, newID) ==
    [id \in DOMAIN rec \cup {newID} |-> IF id = newID THEN oldID ELSE rec[id]]

\* recreated[c.ID] = newID and recreated[dep.ID] = depNewID
track(rec, oldID, newID) ==
    [id \in DOMAIN rec \cup {oldID} |-> IF id = oldID THEN newID ELSE rec[id]]

\* return resp.ID, nil and the caller's recreated[c.ID] = newID
RcSucceed(newID) ==
    /\ notes' = notes
    /\ IF rc.kind = "self"
       THEN pc' = "selfNotify" /\ rc' = rc /\ recreated' = recreated
       ELSE /\ rc' = NoRc
            /\ recreated' = track(recreated, rc.c.ID, newID)
            /\ pc' = IF rc.kind = "dep" THEN "deps" ELSE "findDeps"

RcPull ==
    /\ pc = "rcPull"
    /\ \/ /\ images' = [images EXCEPT ![rc.c.Image] = registry[rc.c.Image]]
          /\ calls' = RcCall("pull", rc.c.Image, "ok")
          /\ pc' = "rcStop"
          /\ UNCHANGED <<rc, recreated, notes>>
       \/ /\ calls' = RcCall("pull", rc.c.Image, "err")
          /\ RcFail
          /\ UNCHANGED images
    /\ UNCHANGED <<daemon, registry, cfg, groups, todo, cur, fnVars>>

\* variant with a slip: the error of the stop is ignored
StopErrorIgnored == FALSE

\* a failed stop ends RecreateContainer with an error
StopErrorIsFatal == TRUE

\* ContainerStop with a grace period of 10s; stopping the container the process
\* runs in ends the process (no signal is handled), the call never returns
RcStop ==
    /\ pc = "rcStop"
    /\ \/ /\ Exists(rc.c.ID)
          /\ daemon' = [daemon EXCEPT ![rc.c.ID].State =
                            IF @ = "removing" THEN @ ELSE "exited"]
          /\ calls' = RcCall("stop", rc.c.ID, "ok")
          /\ pc' = IF rc.c.ID = cfg.selfID THEN "exited" ELSE "rcRemove"
          /\ UNCHANGED <<rc, recreated, notes>>
       \/ /\ calls' = RcCall("stop", rc.c.ID, "err")
          /\ IF StopErrorIsFatal THEN RcFail
             ELSE pc' = "rcRemove" /\ UNCHANGED <<rc, recreated, notes>>
          /\ UNCHANGED daemon
    /\ UNCHANGED <<envVars, groups, todo, cur, fnVars>>

\* variant with a slip: the removal is best-effort, its error is ignored
RemoveErrorIgnored == FALSE

\* a failed remove (other than "already in progress") ends RecreateContainer
\* with an error
RemoveErrorIsFatal == TRUE

RcRemove ==
    /\ pc = "rcRemove"
    /\ \/ /\ Exists(rc.c.ID) /\ daemon[rc.c.ID].State = "exited"
          /\ daemon' = [daemon EXCEPT ![rc.c.ID].State = "removed"]
          /\ calls' = RcCall("remove", rc.c.ID, "ok")
          /\ pc' = "rcCreate"
          /\ UNCHANGED <<rc, recreated, notes>>
       \/ \* "removal of container ... is already in progress"
          /\ Exists(rc.c.ID)
          /\ daemon' = [daemon EXCEPT ![rc.c.ID].State = "removing"]
          /\ calls' = RcCall("remove", rc.c.ID, "in progress")
          /\ pc' = "rcWait"
          /\ UNCHANGED <<rc, recreated, notes>>
       \/ /\ calls' = RcCall("remove", rc.c.ID, "err")
          /\ IF RemoveErrorIsFatal THEN RcFail
             ELSE pc' = "rcCreate" /\ UNCHANGED <<rc, recreated, notes>>
          /\ UNCHANGED daemon
    /\ UNCHANGED <<envVars, groups, todo, cur, fnVars>>

\* waitForContainerRemoval: one round of the poll loop (ContainerInspect, then
\* the select on the deadline and the 500ms timer)
RcWait ==
    /\ pc = "rcWait"
    /\ \/ \* ContainerInspect returns an error: "container is gone"
          /\ pc' = "rcCreate"
          /\ UNCHANGED <<rc, recreated, notes>>
       \/ \* the container is still there and the 60s deadline has passed
          /\ Exists(rc.c.ID)
          /\ RcFail
       \/ \* the container is still there: sleep 500ms and poll again
          /\ Exists(rc.c.ID)
          /\ rc.polls < MaxPolls
          /\ rc' = [rc EXCEPT !.polls = @ + 1]
          /\ UNCHANGED <<pc, recreated, notes>>
    /\ UNCHANGED <<daemon, envVars, groups, todo, cur, calls, fnVars>>

\* the daemon finishes a removal that was in progress; the engine can tell only
\* at its next stop, poll or create, so the step is taken right before one of those
DaemonFinishRemoval ==
    /\ pc \in {"rcStop", "rcWait", "rcCreate"}
    /\ \E id \in LiveIds :
         /\ daemon[id].State = "removing"
         /\ daemon' = [daemon EXCEPT ![id].State = "removed"]
    /\ UNCHANGED <<envVars, pc, groups, todo, cur, rc, recreated, calls, notes, fnVars>>

\* variant with a slip: only the network of the creation call is kept
additionalNetworksNone(order) == <<>>

\* the networks met after the first one in the range over the snapshot's
\* networks (a Go map: any order); they are connected after the creation
additionalNetworks(order) == IF order = <<>> THEN <<>> ELSE Tail(order)

\* variant with a slip: only a container: mode keeps the hostname out
canSetHostnameButContainer(mode) ==
    ~(Len(mode) >= 10 /\ SubSeq(mode, 1, 10) = "container:")

\* canSetHostname: false for a mode that begins with container:, for host and
\* for none
canSetHostname(mode) ==
    /\ ~(Len(mode) >= 10 /\ SubSeq(mode, 1, 10) = "container:")
    /\ ~(mode = "host" \/ mode = "none")

\* config.Hostname of the creation parameters, decided on the snapshot's mode
configHostname(c) == IF canSetHostname(c.NetworkMode) THEN c.Hostname ELSE ""

\* build the creation parameters and ContainerCreate under the name rc.name; the
\* range over the snapshot's networks hands the first one it visits to the create
RcCreate ==
    /\ pc = "rcCreate"
    /\ \/ /\ ~NameInUse(rc.name)
          /\ \E order \in SetToSeqs(DOMAIN rc.c.Networks),
                mode \in resolveNetworkMode(rc.c.NetworkMode,
                                            IF rc.kind = "self" THEN <<>> ELSE recreated) :
               LET newID == FreshId(Created + 1)
                   primary == IF order = <<>> THEN {} ELSE {order[1]}
               IN /\ ModeUsable(mode)
                  /\ daemon' = daemon @@
                        (newID :> [rc.c EXCEPT !.ID = newID,
                                               !.Name = NormName(rc.name),
                                               !.NetworkMode = mode,
                                               !.Hostname = configHostname(rc.c),
                                               !.Networks = [n \in primary |-> rc.c.Networks[n]],
                                               !.State = "created"])
                  /\ rc' = [rc EXCEPT !.newID = newID,
                                      !.addl = additionalNetworks(order)]
                  /\ calls' = RcCall("create", newID, "ok")
                  /\ pc' = IF Len(order) > 1 THEN "rcConnect" ELSE "rcStart"
                  /\ UNCHANGED <<recreated, notes>>
       \/ /\ calls' = RcCall("create", "", "err")
          /\ RcFail
          /\ UNCHANGED daemon
    /\ UNCHANGED <<envVars, groups, todo, cur, fnVars>>

\* variant with a slip: the container that could not be connected or started is
\* force-removed before the error is returned
ForceRemovePartial(d, newID) == [d EXCEPT ![newID].State = "removed"]

\* return "", fmt.Errorf(...) after a failed NetworkConnect or ContainerStart:
\* nothing is done about the container that was created
LeavePartial(d, newID) == d

\* variant with a slip: the network is connected with default settings
endpointConfigDefault(c, netName) == "default"

\* endpointConfig := oldContainer.NetworkSettings.Networks[netName]
endpointConfig(c, netName) == c.Networks[netName]

\* NetworkConnect of the next additional network, with the snapshot's endpoint settings
RcConnect ==
    /\ pc = "rcConnect"
    /\ LET netName == Head(rc.addl)
       IN \/ /\ daemon' = [daemon EXCEPT ![rc.newID].Networks =
                               @ @@ (netName :> endpointConfig(rc.c, netName))]
             /\ calls' = RcCall("connect", rc.newID, "ok")
             /\ rc' = [rc EXCEPT !.addl = Tail(@)]
             /\ pc' = IF Len(rc.addl) > 1 THEN "rcConnect" ELSE "rcStart"
             /\ UNCHANGED <<recreated, notes>>
          \/ /\ calls' = RcCall("connect", rc.newID, "err")
             /\ RcFail
             /\ daemon' = LeavePartial(daemon, rc.newID)
    /\ UNCHANGED <<envVars, groups, todo, cur, fnVars>>

RcStart ==
    /\ pc = "rcStart"
    /\ \/ /\ daemon' = [daemon EXCEPT ![rc.newID].State = "running"]
          /\ calls' = RcCall("start", rc.newID, "ok")
          /\ RcSucceed(rc.newID)
       \/ /\ calls' = RcCall("start", rc.newID, "err")
          /\ RcFail
          /\ daemon' = LeavePartial(daemon, rc.newID)
    /\ UNCHANGED <<envVars, groups, todo, cur, fnVars>>

-----------------------------------------------------------------------------
(* Network-dependency repair *)

\* FindNetworkDependents(oldID): the live containers whose network mode
\* references the id that was just replaced
NetworkDependents(oldID) ==
    {id \in LiveIds : /\ daemon[id].State = "running"
                      /\ id # oldID
                      /\ daemon[id].NetworkMode = "container:" \o oldID}

FindDeps ==
    /\ pc = "findDeps"
    /\ LET oldID == MemberAt(cur.containers, cur.idx).ID
       IN \/ \E order \in SetToSeqs(NetworkDependents(oldID)) :
               /\ cur' = [cur EXCEPT !.deps = [i \in 1..Len(order) |-> daemon[order[i]]]]
               /\ calls' = Append(calls, Call("list", "FindNetworkDependents", oldID, "", "ok", ""))
          \/ /\ cur' = [cur EXCEPT !.deps = <<>>]
             /\ calls' = Append(calls, Call("list", "FindNetworkDependents", oldID, "", "err", ""))
    /\ pc' = "deps"
    /\ UNCHANGED <<daemon, envVars, groups, todo, rc, recreated, notes, fnVars>>

\* for _, dep := range deps: RecreateContainer(dep)
NextDep ==
    /\ pc = "deps"
    /\ cur.deps # <<>>
    /\ rc' = [NoRc EXCEPT !.kind = "dep", !.c = Head(cur.deps), !.name = Head(cur.deps).Name]
    /\ cur' = [cur EXCEPT !.deps = Tail(@)]
    /\ pc' = RecreateEntry
    /\ UNCHANGED <<daemon, envVars, groups, todo, recreated, calls, notes, fnVars>>

\* the dependents are done: on to the next container of the group
DepsDone ==
    /\ pc = "deps"
    /\ cur.deps = <<>>
    /\ cur' = [cur EXCEPT !.idx = @ + 1]
    /\ pc' = "member"
    /\ UNCHANGED <<daemon, envVars, groups, todo, rc, recreated, calls, notes, fnVars>>

-----------------------------------------------------------------------------
(* Self-update *)

SuffixLen == 8

tempName(c) ==
    containerName(c) \o "-old-" \o (IF Len(c.ID) > SuffixLen THEN SubSeq(c.ID, 1, SuffixLen) ELSE c.ID)

SelfCall(op, target, res) == Append(calls, Call(op, "UpdateGroups", rc.c.ID, target, res, ""))

SelfRename ==
    /\ pc = "selfRename"
    /\ \/ /\ Exists(rc.c.ID) /\ ~NameInUse(tempName(rc.c))
          /\ daemon' = [daemon EXCEPT ![rc.c.ID].Name = NormName(tempName(rc.c))]
          /\ calls' = SelfCall("rename", rc.c.ID, "ok")
          /\ pc' = "rcCreate"
          /\ UNCHANGED <<rc, notes>>
       \/ /\ calls' = SelfCall("rename", rc.c.ID, "err")
          /\ notes' = SendError(cur.groupKey, "Self-update failed: rename error")
          /\ pc' = "failed"
          /\ rc' = NoRc
          /\ UNCHANGED daemon
    /\ UNCHANGED <<envVars, groups, todo, cur, recreated, fnVars>>

\* CreateAndStartContainer failed: rename back (the result is not looked at),
\* error notification, return the error
SelfRollback ==
    /\ pc = "selfRollback"
    /\ \/ /\ Exists(rc.c.ID) /\ ~NameInUse(rc.name)
          /\ daemon' = [daemon EXCEPT ![rc.c.ID].Name = NormName(rc.name)]
          /\ calls' = SelfCall("rename", rc.c.ID, "ok")
       \/ /\ calls' = SelfCall("rename", rc.c.ID, "err")
          /\ UNCHANGED daemon
    /\ notes' = SendError(cur.groupKey, "Self-update failed: could not start new container")
    /\ pc' = "failed"
    /\ rc' = NoRc
    /\ UNCHANGED <<envVars, groups, todo, cur, recreated, fnVars>>

SelfNotify ==
    /\ pc = "selfNotify"
    /\ notes' = SendUpdate(cur.groupKey, cur.imageName, cur.oldDigest, cur.newDigest)
    /\ pc' = "selfStop"
    /\ UNCHANGED <<daemon, envVars, groups, todo, cur, rc, recreated, calls, fnVars>>

stopTimeout == "0"

\* variant with a slip: the process just exits, the daemon is not told to stop
\* the container
AfterSelfStopBareExit(res) == "died"

\* the state of the old self after the stop call and os.Exit(0)
AfterSelfStop(res) == IF res = "ok" THEN "exited" ELSE "died"

\* ContainerStop of the old self with timeout 0: the daemon kills the process and
\* records the container as stopped; if the call fails, os.Exit(0) ends the
\* process, which the daemon sees as an exit of the container on its own
SelfStop ==
    /\ pc = "selfStop"
    /\ \/ /\ Exists(rc.c.ID)
          /\ calls' = Append(calls, Call("stop", "UpdateGroups", rc.c.ID, rc.c.ID, "ok",
                                         stopTimeout))
          /\ daemon' = [daemon EXCEPT ![rc.c.ID].State = AfterSelfStop("ok")]
       \/ /\ calls' = Append(calls, Call("stop", "UpdateGroups", rc.c.ID, rc.c.ID, "err",
                                         stopTimeout))
          /\ daemon' = [daemon EXCEPT ![rc.c.ID].State = AfterSelfStop("err")]
    /\ pc' = "exited"
    /\ UNCHANGED <<envVars, groups, todo, cur, rc, recreated, notes, fnVars>>

\* the daemon applies the restart policy to a container whose process exited on
\* its own; a container stopped through the API is not restarted
DaemonRestart ==
    /\ pc = "exited"
    /\ \E id \in LiveIds :
         /\ daemon[id].State = "died"
         /\ daemon[id].RestartPolicy \in {"always", "unless-stopped"}
         /\ daemon' = [daemon EXCEPT ![id].State = "running"]
    /\ UNCHANGED <<envVars, pc, groups, todo, cur, rc, recreated, calls, notes, fnVars>>

-----------------------------------------------------------------------------

Next ==
    \/ RunOnce
    \/ NextGroup
    \/ Finish
    \/ GetOldDigest
    \/ PullGroupImage
    \/ GetNewDigest
    \/ BeginMember
    \/ GroupDone
    \/ RcPull
    \/ RcStop
    \/ RcRemove
    \/ RcWait
    \/ DaemonFinishRemoval
    \/ RcCreate
    \/ RcConnect
    \/ RcStart
    \/ FindDeps
    \/ NextDep
    \/ DepsDone
    \/ SelfRename
    \/ SelfRollback
    \/ SelfNotify
    \/ SelfStop
    \/ DaemonRestart

Spec == Init /\ [][Next]_vars

-----------------------------------------------------------------------------
(* The pure functions on their own: the inputs are drawn in the initial state, *)
(* the action applies the function                                            *)

NoRun ==
    /\ daemon = <<>>
    /\ images = <<>>
    /\ registry = <<>>
    /\ cfg = [dryRun |-> FALSE, notifier |-> FALSE, selfID |-> "", ownID |-> ""]
    /\ groups = <<>>
    /\ todo = {}
    /\ cur = NoCur
    /\ rc = NoRc
    /\ recreated = <<>>
    /\ calls = <<>>
    /\ notes = <<>>

runVars == <<daemon, images, registry, cfg, groups, todo, cur, rc, recreated, calls, notes>>

Digests == {"", "sha256:abc123", "sha256:def456", "sha256:aaa", "sha256:bbb",
            "sha256:ccc", "sha256:img1", "sha256:img2"}

InitDigest ==
    /\ NoRun
    /\ pc = "digest"
    /\ fnIn \in Digests \X Digests
    /\ fnOut = [done |-> FALSE, val |-> FALSE]

CompareDigests ==
    /\ pc = "digest"
    /\ ~fnOut.done
    /\ fnOut' = [done |-> TRUE, val |-> HasDigestChanged(fnIn[1], fnIn[2])]
    /\ UNCHANGED <<runVars, pc, fnIn>>

SpecDigest == InitDigest /\ [][CompareDigests]_vars

GroupIds == {"abc123", "def456", "ghi789"}

ProjectChoices == {NoLabels} \cup {ComposeProjectLabel :> v : v \in {"", "myapp", "standalone"}}

ServiceChoices == {NoLabels} \cup {ComposeServiceLabel :> v : v \in {"", "web", "abc123"}}

\* nil config, nil labels, or a label map with any combination of the two labels
GroupInputs(id) ==
    {[ID |-> id, HasConfig |-> FALSE, HasLabels |-> FALSE, Labels |-> NoLabels],
     [ID |-> id, HasConfig |-> TRUE, HasLabels |-> FALSE, Labels |-> NoLabels]}
    \cup {[ID |-> id, HasConfig |-> TRUE, HasLabels |-> TRUE, Labels |-> p @@ sv] :
            p \in ProjectChoices, sv \in ServiceChoices}

\* lists of at most MaxLen containers with pairwise different ids
GroupLists ==
    UNION {{l \in [1..n -> UNION {GroupInputs(id) : id \in GroupIds}] :
              \A i, j \in 1..n : i # j => l[i].ID # l[j].ID} : n \in 0..MaxLen}

InitGroup ==
    /\ NoRun
    /\ pc = "group"
    /\ fnIn \in GroupLists
    /\ fnOut = [done |-> FALSE, val |-> <<>>]

ApplyGroup ==
    /\ pc = "group"
    /\ ~fnOut.done
    /\ fnOut' = [done |-> TRUE, val |-> GroupByComposeService(fnIn)]
    /\ UNCHANGED <<runVars, pc, fnIn>>

SpecGroup == InitGroup /\ [][ApplyGroup]_vars

\* nil config, nil labels, an empty label map, another label, or the selector
\* label with one of several values
EnableChoices ==
    {NoLabels, "other" :> "label"} \cup {EnableLabel :> v : v \in {"true", "false", "True", "1", ""}}

FilterInputs(id) ==
    {[ID |-> id, HasConfig |-> FALSE, HasLabels |-> FALSE, Labels |-> NoLabels],
     [ID |-> id, HasConfig |-> TRUE, HasLabels |-> FALSE, Labels |-> NoLabels]}
    \cup {[ID |-> id, HasConfig |-> TRUE, HasLabels |-> TRUE, Labels |-> l] : l \in EnableChoices}

\* lists of at most MaxLen containers with pairwise different ids
FilterLists ==
    UNION {{l \in [1..n -> UNION {FilterInputs(id) : id \in GroupIds}] :
              \A i, j \in 1..n : i # j => l[i].ID # l[j].ID} : n \in 0..MaxLen}

InitFilter ==
    /\ NoRun
    /\ pc = "filter"
    /\ fnIn \in FilterLists
    /\ fnOut = [done |-> FALSE, val |-> <<>>]

ApplyFilter ==
    /\ pc = "filter"
    /\ ~fnOut.done
    /\ fnOut' = [done |-> TRUE, val |-> FilterOptedInContainers(fnIn)]
    /\ UNCHANGED <<runVars, pc, fnIn>>

SpecFilter == InitFilter /\ [][ApplyFilter]_vars

-----------------------------------------------------------------------------
(* The range over the group map on its own: two runs of UpdateGroups, a and b, *)
(* over the same group mapping and the same daemon behaviour (the same group   *)
(* fails fatally in both, or none does)                                        *)

GroupKeys == {"myapp", "blog", "standalone:abc123"}

Runs == {"a", "b"}

\* variant with a slip: the range ends after the group it visited first
RangeRestNone(rest, key) == {}

\* the keys the range has still to visit after it visited key
RangeRest(rest, key) == rest \ {key}

InitRange ==
    /\ NoRun
    /\ pc = "range"
    /\ \E keys \in SUBSET GroupKeys \ {{}} :
         \E fails \in keys \cup {""} :
            fnIn = [keys |-> keys, fails |-> fails]
    /\ fnOut = [r \in Runs |-> [rest |-> fnIn.keys, updated |-> <<>>, status |-> "loop"]]

\* one iteration of for groupKey, containers := range groups (a Go map: the
\* order is not specified and may differ from one range to the next); the
\* group whose update fails makes UpdateGroups return the error
RangeStep(r) ==
    /\ pc = "range"
    /\ fnOut[r].status = "loop"
    /\ \E key \in fnOut[r].rest :
         IF key = fnIn.fails
         THEN fnOut' = [fnOut EXCEPT ![r].status = "failed"]
         ELSE fnOut' = [fnOut EXCEPT ![r].updated = Append(@, key),
                                     ![r].rest = RangeRest(@, key)]
    /\ UNCHANGED <<runVars, pc, fnIn>>

\* the range is exhausted: return nil
RangeEnd(r) ==
    /\ pc = "range"
    /\ fnOut[r].status = "loop"
    /\ fnOut[r].rest = {}
    /\ fnOut' = [fnOut EXCEPT ![r].status = "done"]
    /\ UNCHANGED <<runVars, pc, fnIn>>

RangeNext == \E r \in Runs : RangeStep(r) \/ RangeEnd(r)

SpecRange == InitRange /\ [][RangeNext]_vars

-----------------------------------------------------------------------------
(* The hostname of the creation parameters on its own: a snapshot's network   *)
(* mode and hostname are drawn, the parameters are built                      *)

HostnameModes ==
    {"bridge", "host", "none", "default", "backend", "frontend", "", "Host", "None",
     "hostnet", "container", "containers:web", "container:", "container:web",
     "container:" \o OldId(1), "container:" \o shortID(OldId(1))}

Hostnames == {"", "web", "repull-host", shortID(OldId(1))}

InitHostname ==
    /\ NoRun
    /\ pc = "hostname"
    /\ fnIn \in [NetworkMode : HostnameModes, Hostname : Hostnames]
    /\ fnOut = [done |-> FALSE, Hostname |-> "", NetworkMode |-> ""]

\* config.Hostname and hostConfig.NetworkMode as the create call gets them
BuildConfig ==
    /\ pc = "hostname"
    /\ ~fnOut.done
    /\ \E mode \in resolveNetworkMode(fnIn.NetworkMode, recreated) :
         fnOut' = [done |-> TRUE, Hostname |-> configHostname(fnIn), NetworkMode |-> mode]
    /\ UNCHANGED <<runVars, pc, fnIn>>

SpecHostname == InitHostname /\ [][BuildConfig]_vars

-----------------------------------------------------------------------------
(* resolveNetworkMode on its own: a network mode, a Recreation Map as a run   *)
(* builds it (the keys are ids of containers that are gone, the values ids of *)
(* their replacements) and a daemon state; the function is applied to the     *)
(* mode and then to its own result                                            *)

\* another container id with the same first ShortLen characters
Twin(id) == SubSeq(id, 1, IdLen - 1) \o "f"

\* db recreated as a group member and then again, as a dependent of web
TwiceDb == (OldId(2) :> FreshId(2)) @@ (FreshId(2) :> FreshId(3))

\* web and a container whose id has the same first 12 characters, both recreated
BothTwins == (OldId(1) :> FreshId(1)) @@ (Twin(OldId(1)) :> FreshId(3))

MapChoices ==
    {<<>>, OldId(1) :> FreshId(1), OldId(2) :> FreshId(2),
     (OldId(1) :> FreshId(1)) @@ (OldId(2) :> FreshId(2)),
     (OldId(1) :> FreshId(1)) @@ TwiceDb, BothTwins}

\* the id of the last replacement of the container that had id when the run began
Latest(m, id) ==
    IF id \notin DOMAIN m THEN id
    ELSE IF m[id] \notin DOMAIN m THEN m[id]
    ELSE m[m[id]]

Box(id, name) == id :> [ID |-> id, Name |-> name, State |-> "running"]

\* web and db are present under their old id, or under the new one (or were
\* removed since) when the map has them; two containers that no group holds may
\* be present: one whose id begins like web's old id, one whose name is made of
\* hexadecimal digits
DaemonChoices(m) ==
    {web @@ db @@ twin @@ hex :
        web \in (IF OldId(1) \in DOMAIN m THEN {<<>>, Box(Latest(m, OldId(1)), "/web")}
                                          ELSE {Box(OldId(1), "/web")}),
        db \in (IF OldId(2) \in DOMAIN m THEN {<<>>, Box(Latest(m, OldId(2)), "/db")}
                                         ELSE {Box(OldId(2), "/db")}),
        twin \in {<<>>, Box(Latest(m, Twin(OldId(1))), "/cache")},
        hex \in {<<>>, Box(OldId(3), "/bb")}}

ResolveRefs ==
    {OldId(1), OldId(2), Twin(OldId(1)), FreshId(1), FreshId(2), FreshId(3),
     shortID(OldId(1)), "bb", "web", "/web", "cache", "ghost"}

ResolveModes ==
    {"bridge", "host", "none", "backend"} \cup {"container:" \o ref : ref \in ResolveRefs}

InitResolve ==
    /\ images = <<>>
    /\ registry = <<>>
    /\ cfg = [dryRun |-> FALSE, notifier |-> FALSE, selfID |-> "", ownID |-> ""]
    /\ groups = <<>>
    /\ todo = {}
    /\ cur = NoCur
    /\ rc = NoRc
    /\ calls = <<>>
    /\ notes = <<>>
    /\ pc = "resolve"
    /\ recreated \in MapChoices
    /\ daemon \in DaemonChoices(recreated)
    /\ fnIn \in ResolveModes
    /\ fnOut = [n |-> 0, first |-> "", second |-> ""]

ResolveFirst ==
    /\ pc = "resolve"
    /\ fnOut.n = 0
    /\ \E mode \in resolveNetworkMode(fnIn, recreated) :
         fnOut' = [fnOut EXCEPT !.n = 1, !.first = mode]
    /\ UNCHANGED <<runVars, pc, fnIn>>

ResolveAgain ==
    /\ pc = "resolve"
    /\ fnOut.n = 1
    /\ \E mode \in resolveNetworkMode(fnOut.first, recreated) :
         fnOut' = [fnOut EXCEPT !.n = 2, !.second = mode]
    /\ UNCHANGED <<runVars, pc, fnIn>>

SpecResolve == InitResolve /\ [][ResolveFirst \/ ResolveAgain]_vars

-----------------------------------------------------------------------------
(* Self detection on its own: the cgroup file and the hostname are drawn in  *)
(* the initial state, isSelf is then called on container ids                 *)

MaxAsks == 2

\* what /proc/self/cgroup can hold: unreadable, cgroups v1, cgroups v2 under
\* systemd, a private cgroup namespace, an empty file, an upper-case id, another
\* runtime's scope name, an id on a later line, a line with fewer than 3 fields
CgroupFiles ==
    {[err |-> TRUE, data |-> ""],
     [err |-> FALSE, data |-> "12:memory:/docker/" \o OldId(1) \o "\n11:cpu:/docker/"
                               \o OldId(1) \o "\n"],
     [err |-> FALSE, data |-> "0::/system.slice/docker-" \o OldId(1) \o ".scope\n"],
     [err |-> FALSE, data |-> "0::/system.slice/docker-" \o OldId(2) \o ".scope\n"],
     [err |-> FALSE, data |-> "0::/\n"],
     [err |-> FALSE, data |-> ""],
     [err |-> FALSE, data |-> "0::/docker/" \o Twelve("A") \o Tail52 \o "\n"],
     [err |-> FALSE, data |-> "0::/kubepods/cri-containerd-" \o OldId(1) \o ".scope\n"],
     [err |-> FALSE, data |-> "1:name=systemd:/init.scope\n0::/docker/" \o OldId(2) \o "\n"],
     [err |-> FALSE, data |-> "garbage:line\n0::/docker/" \o OldId(1)]}

\* what os.Hostname can return: a custom name, Docker's default (the short id),
\* nothing, a one-letter name
SelfHostnames == {"repull-host", shortID(OldId(1)), "", "a"}

\* the container ids isSelf is asked about
AskedIds == {OldId(1), OldId(2), Twin(OldId(1))}

InitSelf ==
    /\ NoRun
    /\ pc = "self"
    /\ fnIn \in [cgroup : CgroupFiles, hostname : SelfHostnames]
    /\ fnOut = [detected |-> FALSE, host |-> "", asked |-> <<>>]

\* isSelf(containerID): the first call detects the own id, every call compares
IsSelfCall(containerID) ==
    /\ pc = "self"
    /\ Len(fnOut.asked) < MaxAsks
    /\ cfg' = [cfg EXCEPT !.ownID = IF fnOut.detected THEN @
                                    ELSE detectOwnContainerID(fnIn.cgroup, fnIn.hostname)]
    /\ fnOut' = [detected |-> TRUE,
                 host |-> IF fnOut.detected THEN fnOut.host ELSE fnIn.hostname,
                 asked |-> Append(fnOut.asked,
                                  [id |-> containerID, self |-> isSelf(containerID)'])]
    /\ UNCHANGED <<daemon, images, registry, groups, todo, cur, rc, recreated, calls,
                   notes, pc, fnIn>>

\* the hostname of the machine changes while the process runs
HostnameChanges ==
    /\ pc = "self"
    /\ fnOut.detected
    /\ \E h \in SelfHostnames \ {fnIn.hostname} : fnIn' = [fnIn EXCEPT !.hostname = h]
    /\ UNCHANGED <<runVars, pc, fnOut>>

SelfNext == (\E id \in AskedIds : IsSelfCall(id)) \/ HostnameChanges

SpecSelf == InitSelf /\ [][SelfNext]_vars

-----------------------------------------------------------------------------
(* Properties *)

Idx == 1..Len(calls)

IsMutation(i) == calls[i].op \in MutationOps

ByRecreate(i) == calls[i].by = "RecreateContainer"

\* RecreateContainer failed at its create, network-connect or start step
RcFailedAt(i) ==
    /\ ByRecreate(i)
    /\ calls[i].op \in {"create", "connect", "start"}
    /\ calls[i].res = "err"

\* the lookups of UpdateGroups for the image of group k
GroupLookups(k) ==
    {i \in Idx : calls[i].op = "imageInspect" /\ calls[i].by = "UpdateGroups" /\ calls[i].for = k}

\* the lookup before the pull (the other one directly follows the pull of the group)
IsOldLookup(i) ==
    /\ calls[i].op = "imageInspect" /\ calls[i].by = "UpdateGroups"
    /\ (i = 1 \/ calls[i-1].op # "pull" \/ calls[i-1].by # "UpdateGroups")

IsNewLookup(i) ==
    /\ calls[i].op = "imageInspect" /\ calls[i].by = "UpdateGroups"
    /\ ~IsOldLookup(i)

\* the digest of group k's image was the same before and after the pull
Unchanged(k) ==
    \E i, j \in GroupLookups(k) :
        /\ IsOldLookup(i) /\ IsNewLookup(j)
        /\ calls[i].res = "ok" /\ calls[j].res = "ok"
        /\ calls[i].val = calls[j].val

MemberIds(k) == {groups[k][n].ID : n \in 1..Len(groups[k])}

NotesFor(k) == {n \in 1..Len(notes) : notes[n].group = k}

OptedIn(id) ==
    /\ EnableLabel \in DOMAIN daemon[id].Labels
    /\ daemon[id].Labels[EnableLabel] = "true"

C3_OptInOnly ==
    \A i \in Idx : IsMutation(i) => OptedIn(calls[i].for)

\* C4 as claimed: no daemon mutation call is issued for any container of a group
\* whose digest is unchanged, and no notification is sent for the group.
C4_UnchangedNeverMutated ==
    \A k \in DOMAIN groups : Unchanged(k) =>
        /\ \A i \in Idx : IsMutation(i) => calls[i].for \notin MemberIds(k)
        /\ NotesFor(k) = {}

\* C4 (amended): while UpdateGroups handles a group whose digest is unchanged it
\* issues no daemon mutation call and it sends no notification for the group; a
\* container of such a group is mutated in the run only by a RecreateContainer that
\* recreates it as a network dependent while another group is handled.
C4_UnchangedGroupSkipped ==
    \A k \in DOMAIN groups : Unchanged(k) =>
        /\ \A i \in Idx : IsMutation(i) => calls[i].group # k
        /\ NotesFor(k) = {}
        /\ \A i \in Idx : (IsMutation(i) /\ calls[i].for \in MemberIds(k)) =>
              /\ ByRecreate(i)
              /\ HasPrefix(daemon[calls[i].for].NetworkMode, "container:")

C4_Witness ==
    \E k \in DOMAIN groups :
        /\ Unchanged(k)
        /\ pc = "done"
        /\ \E i \in Idx : calls[i].op = "start" /\ calls[i].res = "ok"

\* C5: in dry-run no create, stop, remove, rename, start or network-connect call is
\* issued, while every group that has been handled had its image looked up, pulled
\* and looked up again.
C5_DryRun ==
    cfg.dryRun =>
        /\ \A i \in Idx : ~IsMutation(i)
        /\ pc \in {"loop", "done"} =>
              \A k \in (DOMAIN groups) \ todo :
                  \E i, j \in GroupLookups(k) :
                      /\ j = i + 2
                      /\ calls[i+1].op = "pull" /\ calls[i+1].res = "ok"
                      /\ calls[i+1].for = k
                      /\ calls[j].res = "ok"

C5_Witness ==
    /\ cfg.dryRun
    /\ pc = "done"
    /\ \E k \in DOMAIN groups : \E i, j \in GroupLookups(k) :
          i < j /\ calls[i].res = "ok" /\ calls[j].res = "ok" /\ calls[i].val # calls[j].val

\* C6: a failed pull of a group's image ends the run: it is the last daemon call,
\* UpdateGroups returns an error, and the group has received exactly one
\* notification, an error (none when no notifier is configured).
C6_PullFailureFatal ==
    \A i \in Idx :
        (calls[i].op = "pull" /\ calls[i].by = "UpdateGroups" /\ calls[i].res = "err") =>
            /\ i = Len(calls)
            /\ pc = "failed"
            /\ IF cfg.notifier
               THEN /\ Cardinality(NotesFor(calls[i].for)) = 1
                    /\ notes[Len(notes)].kind = "error"
                    /\ notes[Len(notes)].group = calls[i].for
               ELSE notes = <<>>

C6_Witness ==
    /\ pc = "failed"
    /\ cfg.notifier
    /\ todo # {}
    /\ notes # <<>>
    /\ calls[Len(calls)].op = "pull"
    /\ calls[Len(calls)].by = "UpdateGroups"
    /\ calls[Len(calls)].res = "err"

\* C7: HasDigestChanged(a, b) equals a # b: FALSE for equal digests, ("", "")
\* included, and TRUE when exactly one side is empty or both differ.
C7_DigestChanged ==
    (pc = "digest" /\ fnOut.done) =>
        /\ fnOut.val = (fnIn[1] # fnIn[2])
        /\ fnIn = <<"", "">> => ~fnOut.val
        /\ (fnIn[1] = "") # (fnIn[2] = "") => fnOut.val

C7_Witness ==
    /\ pc = "digest"
    /\ fnOut.done
    /\ fnIn = <<"", "sha256:abc123">>
    /\ fnOut.val

\* C8: when the lookup before the pull failed and the pull and the lookup after it
\* succeed, the group counts as changed: outside dry-run UpdateGroups goes on to
\* recreate its containers, in dry-run it goes on to the next group.
C8_UnknownOldDigestUpdates ==
    [][(/\ pc = "newDigest"
        /\ Len(calls) > 1
        /\ IsOldLookup(Len(calls) - 1)
        /\ calls[Len(calls) - 1].res = "err"
        /\ calls'[Len(calls')].res = "ok")
       => (/\ cur.oldDigest = ""
           /\ cur'.newDigest # ""
           /\ pc' = IF cfg.dryRun THEN "loop" ELSE "member")]_vars

C8_Witness ==
    /\ pc = "member"
    /\ cur.idx = 1
    /\ cur.oldDigest = ""
    /\ Len(calls) > 2
    /\ IsNewLookup(Len(calls))
    /\ calls[Len(calls) - 2].res = "err"

\* C9 as claimed: a failed digest lookup, before or after the pull, never aborts
\* the run.
C9_LookupFailureNeverAborts ==
    \A i \in Idx :
        (calls[i].op = "imageInspect" /\ calls[i].res = "err") =>
            ~(i = Len(calls) /\ pc = "failed")

\* C9 (amended): a failed lookup before the pull does not abort the run: the old
\* digest is empty and UpdateGroups goes on to the pull. A failed lookup after the
\* pull is fatal: it is the last daemon call, the group gets an error notification
\* and UpdateGroups returns an error.
C9_OnlyOldLookupRecovered ==
    \A i \in Idx :
        (calls[i].op = "imageInspect" /\ calls[i].res = "err") =>
            IF IsOldLookup(i)
            THEN i = Len(calls) => (pc = "pull" /\ cur.oldDigest = "")
            ELSE /\ i = Len(calls)
                 /\ pc = "failed"
                 /\ cfg.notifier =>
                       /\ notes # <<>>
                       /\ notes[Len(notes)].kind = "error"
                       /\ notes[Len(notes)].group = calls[i].for

C9_Witness ==
    /\ pc = "done"
    /\ \E i \in Idx : /\ IsOldLookup(i)
                      /\ calls[i].res = "err"
                      /\ \E j \in Idx : j > i /\ calls[j].op = "start" /\ calls[j].res = "ok"

\* C10: GroupByComposeService partitions its input: every input container is in
\* exactly one group, exactly once; no group is empty; the group sizes add up to
\* the length of the input.
RECURSIVE SumLen(_, _)
SumLen(g, keys) ==
    IF keys = {} THEN 0
    ELSE LET k == CHOOSE x \in keys : TRUE IN Len(g[k]) + SumLen(g, keys \ {k})

C10_Partition ==
    (pc = "group" /\ fnOut.done) =>
        LET g == fnOut.val
        IN /\ \A i \in 1..Len(fnIn) :
                Cardinality({p \in UNION {{<<k, n>> : n \in 1..Len(g[k])} : k \in DOMAIN g} :
                                g[p[1]][p[2]] = fnIn[i]}) = 1
           /\ \A k \in DOMAIN g : Len(g[k]) > 0
           /\ SumLen(g, DOMAIN g) = Len(fnIn)

C10_Witness ==
    /\ pc = "group"
    /\ fnOut.done
    /\ Len(fnIn) = 2
    /\ DOMAIN fnOut.val = {"myapp:web"}
    /\ Len(fnOut.val["myapp:web"]) = 2

-----------------------------------------------------------------------------
(* Group keys and order within a group *)

\* both compose labels are present with non-empty values
Labelled(c) ==
    /\ HasLabel(c, ComposeProjectLabel) /\ c.Labels[ComposeProjectLabel] # ""
    /\ HasLabel(c, ComposeServiceLabel) /\ c.Labels[ComposeServiceLabel] # ""

\* the keys of the groups of g that hold container c
KeysOf(g, c) == {k \in DOMAIN g : \E n \in 1..Len(g[k]) : g[k][n] = c}

\* C11: a container's key is "project:service" iff both compose labels are present
\* and non-empty, otherwise "standalone:<id>"; two containers with identical
\* non-empty project and service labels share one group; two containers with
\* distinct ids of which one lacks a label or has an empty value never share one.
C11_GroupKeyRule ==
    (pc = "group" /\ fnOut.done) =>
        LET g == fnOut.val
        IN /\ \A i \in 1..Len(fnIn) :
                KeysOf(g, fnIn[i]) =
                    IF Labelled(fnIn[i])
                    THEN {fnIn[i].Labels[ComposeProjectLabel] \o ":" \o
                          fnIn[i].Labels[ComposeServiceLabel]}
                    ELSE {"standalone:" \o fnIn[i].ID}
           /\ \A i, j \in 1..Len(fnIn) :
                (/\ Labelled(fnIn[i]) /\ Labelled(fnIn[j])
                 /\ fnIn[i].Labels[ComposeProjectLabel] = fnIn[j].Labels[ComposeProjectLabel]
                 /\ fnIn[i].Labels[ComposeServiceLabel] = fnIn[j].Labels[ComposeServiceLabel])
                => KeysOf(g, fnIn[i]) = KeysOf(g, fnIn[j])
           /\ \A i, j \in 1..Len(fnIn) :
                (fnIn[i].ID # fnIn[j].ID /\ (~Labelled(fnIn[i]) \/ ~Labelled(fnIn[j])))
                => KeysOf(g, fnIn[i]) \cap KeysOf(g, fnIn[j]) = {}

\* the position of container c in the input list (the ids of a list are distinct)
PosIn(list, c) == CHOOSE i \in 1..Len(list) : list[i] = c

\* C12: within each group the containers are in the relative order of the input
\* list, and grouping the same input again gives the same keys and the same
\* per-group sequences.
C12_StableOrder ==
    (pc = "group" /\ fnOut.done) =>
        LET g == fnOut.val
            again == GroupByComposeService(fnIn)
        IN /\ \A k \in DOMAIN g : \A m, n \in 1..Len(g[k]) :
                m < n => PosIn(fnIn, g[k][m]) < PosIn(fnIn, g[k][n])
           /\ DOMAIN again = DOMAIN g
           /\ \A k \in DOMAIN g : again[k] = g[k]

C12_Witness ==
    /\ pc = "group"
    /\ fnOut.done
    /\ Len(fnIn) = 2
    /\ fnIn[1].ID = "def456" /\ fnIn[2].ID = "abc123"
    /\ \E k \in DOMAIN fnOut.val : fnOut.val[k] = <<fnIn[1], fnIn[2]>>

\* the selector label exists and its value is exactly "true"
Selected(c) ==
    /\ c.HasConfig /\ c.HasLabels
    /\ EnableLabel \in DOMAIN c.Labels
    /\ c.Labels[EnableLabel] = "true"

\* C13: FilterOptedInContainers returns exactly the input containers whose label
\* io.repull.enable exists and equals "true", each once, in input order; containers
\* with another value, without the label, with nil labels or nil config are left out.
C13_ExactTrue ==
    (pc = "filter" /\ fnOut.done) =>
        LET out == fnOut.val
        IN /\ \A n \in 1..Len(out) : Selected(out[n]) /\ \E i \in 1..Len(fnIn) : fnIn[i] = out[n]
           /\ \A i \in 1..Len(fnIn) :
                Cardinality({n \in 1..Len(out) : out[n] = fnIn[i]}) =
                    IF Selected(fnIn[i]) THEN 1 ELSE 0
           /\ \A m, n \in 1..Len(out) : m < n => PosIn(fnIn, out[m]) < PosIn(fnIn, out[n])

C13_Witness ==
    /\ pc = "filter"
    /\ fnOut.done
    /\ Len(fnIn) = 2
    /\ fnIn[1].HasLabels /\ EnableLabel \in DOMAIN fnIn[1].Labels /\ fnIn[1].Labels[EnableLabel] = "True"
    /\ Selected(fnIn[2])
    /\ fnOut.val = <<fnIn[2]>>

-----------------------------------------------------------------------------
(* Network-dependency repair *)

\* call i is the successful start that ends the recreation of a group's container;
\* the lookup of its network dependents is the next call
RecreatedAt(i) ==
    /\ ByRecreate(i) /\ calls[i].op = "start" /\ calls[i].res = "ok"
    /\ i < Len(calls)
    /\ calls[i+1].by = "FindNetworkDependents"
    /\ calls[i+1].for = calls[i].for

\* container d was running when call i was issued
WasRunningAt(d, i) ==
    /\ d \in OldIds \/ \E j \in 1..(i-1) : calls[j].op = "start" /\ calls[j].target = d /\ calls[j].res = "ok"
    /\ ~\E j \in 1..i : calls[j].op = "stop" /\ calls[j].target = d /\ calls[j].res = "ok"

\* the containers whose network mode referenced w when w had just been replaced
DependentsAt(w, i) ==
    {d \in DOMAIN daemon : /\ d # w
                           /\ daemon[d].NetworkMode = "container:" \o w
                           /\ WasRunningAt(d, i)}

\* the dependents loop that follows call i + 1 is over
DepLoopOver(i) ==
    \/ \E j \in (i+2)..Len(calls) : calls[j].by = "FindNetworkDependents"
    \/ ~(pc = "deps" \/ rc.kind = "dep")

\* the last call of the RecreateContainer invocation whose pull is call p
LastCallOf(p) ==
    CHOOSE e \in p..Len(calls) :
        /\ \A j \in (p+1)..e : /\ ByRecreate(j) /\ calls[j].for = calls[p].for
                               /\ calls[j].op # "pull"
        /\ e < Len(calls) => ~(/\ ByRecreate(e+1) /\ calls[e+1].for = calls[p].for
                               /\ calls[e+1].op # "pull")

\* C14: when web has been recreated from w to n and the lookup of its dependents
\* succeeded, every container db that ran with network mode container:w is handed
\* to RecreateContainer in the same run, after web; unless a daemon call of that
\* recreation fails (or the wait for the removal times out), db is created anew
\* under its name with network mode container:n and started.
C14_DependentRepaired ==
    \A i \in Idx :
        (RecreatedAt(i) /\ calls[i+1].res = "ok" /\ DepLoopOver(i)) =>
            \A d \in DependentsAt(calls[i].for, i) :
                \E p \in (i+2)..Len(calls) :
                    /\ ByRecreate(p) /\ calls[p].for = d /\ calls[p].op = "pull"
                    /\ LET e == LastCallOf(p)
                       IN \/ calls[e].res = "err"
                          \/ calls[e].op = "remove" /\ calls[e].res = "in progress"
                          \/ /\ calls[e].op = "start" /\ calls[e].res = "ok"
                             /\ \E c \in p..e :
                                  /\ calls[c].op = "create" /\ calls[c].res = "ok"
                                  /\ daemon[calls[c].target].NetworkMode =
                                        "container:" \o calls[i].target
                                  /\ daemon[calls[c].target].Name = daemon[d].Name
                                  /\ calls[e].target = calls[c].target

C14_Witness ==
    /\ pc = "done"
    /\ \E i \in Idx :
         /\ RecreatedAt(i) /\ calls[i+1].res = "ok"
         /\ calls[i].for = OldId(1)
         /\ OldId(2) \in DependentsAt(OldId(1), i)
         /\ \E n \in LiveIds : /\ daemon[n].Name = daemon[OldId(2)].Name
                               /\ daemon[n].State = "running"
                               /\ daemon[n].NetworkMode = "container:" \o calls[i].target

\* this step is the failure of the lookup of the dependents
FindFailsNow ==
    /\ pc = "findDeps"
    /\ calls'[Len(calls')].by = "FindNetworkDependents"
    /\ calls'[Len(calls')].res = "err"

\* this step is the failed return of the RecreateContainer of a dependent
DepFailsNow ==
    /\ rc.kind = "dep"
    /\ rc'.kind = "none"
    /\ ~(Len(calls') > Len(calls) /\ calls'[Len(calls')].op = "start"
                                  /\ calls'[Len(calls')].res = "ok")

\* a lookup of dependents or the recreation of a dependent failed while group k
\* was handled, and the run has gone on to the end of the group
DepFailedIn(k) ==
    /\ pc \in {"loop", "done"}
    /\ \E j \in Idx : /\ calls[j].group = k
                      /\ calls[j].res = "err"
                      /\ calls[j].by \in {"RecreateContainer", "FindNetworkDependents"}

\* C15: a failed lookup of the dependents or a failed recreation of a dependent does
\* not end the run: UpdateGroups stays in the dependents loop of the same container
\* with the remaining dependents, groups and containers still to come, sends no
\* error notification and adds no Recreation Map entry; when the group is finished
\* it has got its success notification and no error notification.
C15_DependentFailureSkipped ==
    /\ [][(FindFailsNow \/ DepFailsNow) =>
            /\ pc' = "deps"
            /\ recreated' = recreated
            /\ notes' = notes
            /\ todo' = todo
            /\ cur'.idx = cur.idx /\ cur'.containers = cur.containers
            /\ cur'.deps = IF FindFailsNow THEN <<>> ELSE cur.deps]_vars
    /\ [](\A k \in DOMAIN groups : DepFailedIn(k) =>
            /\ \A n \in NotesFor(k) : notes[n].kind = "update"
            /\ cfg.notifier => Cardinality(NotesFor(k)) = 1)

C15_Witness ==
    /\ pc = "done"
    /\ cfg.notifier
    /\ \E k \in DOMAIN groups :
         /\ DepFailedIn(k)
         /\ \E j \in Idx : calls[j].group = k /\ calls[j].res = "err" /\ ByRecreate(j)
                                              /\ calls[j].op = "create"
         /\ \E j \in Idx : calls[j].group = k /\ calls[j].res = "err"
                                              /\ calls[j].by = "FindNetworkDependents"
         /\ Cardinality(DOMAIN recreated) = 2

-----------------------------------------------------------------------------
(* Self-update *)

BySelfUpdate(i) ==
    calls[i].for = cfg.selfID /\ calls[i].by \in {"UpdateGroups", "CreateAndStartContainer"}
                              /\ calls[i].op \in MutationOps

\* the name container id had when the run started
OrigName(id) == ContainerNames[CHOOSE n \in 1..NumContainers : OldId(n) = id]

\* the replacement of the updater has been started
ReplacementStartedBefore(i) ==
    \E j \in 1..(i-1) : /\ calls[j].by = "CreateAndStartContainer"
                        /\ calls[j].for = cfg.selfID
                        /\ calls[j].op = "start" /\ calls[j].res = "ok"

\* the calls of the self-update branch come in the order rename to the temporary
\* name, create under the original name, connect, start, notification, stop with a
\* zero grace period, exit
SelfBranchOrder ==
    /\ \A i \in Idx : BySelfUpdate(i) =>
         LET prev(by, ops) == /\ i > 1 /\ calls[i-1].for = cfg.selfID
                              /\ calls[i-1].by = by /\ calls[i-1].op \in ops
                              /\ calls[i-1].res = "ok"
         IN /\ calls[i].op = "create" =>
                 /\ prev("UpdateGroups", {"rename"})
                 /\ calls[i].res = "ok" =>
                       daemon[calls[i].target].Name = OrigName(cfg.selfID)
            /\ calls[i].op \in {"connect", "start"} =>
                 prev("CreateAndStartContainer", {"create", "connect"})
            /\ calls[i].op = "stop" =>
                 /\ prev("CreateAndStartContainer", {"start"})
                 /\ calls[i].val = stopTimeout
                 /\ i = Len(calls)
                 /\ pc = "exited"
                 /\ cfg.notifier => /\ notes # <<>>
                                    /\ notes[Len(notes)].kind = "update"
                                    /\ notes[Len(notes)].group = calls[i].group
    /\ pc = "selfStop" =>
         /\ calls[Len(calls)].op = "start" /\ calls[Len(calls)].res = "ok"
         /\ cfg.notifier => notes # <<>> /\ notes[Len(notes)].kind = "update"

\* C16: for the updater's own container the calls come in the order rename, create
\* and start of the replacement, notification, stop with a zero grace period, exit,
\* and the updater's container is never stopped before its replacement was started.
C16_SelfUpdateOrder ==
    cfg.selfID # "" =>
        /\ SelfBranchOrder
        /\ \A i \in Idx :
             (calls[i].op = "stop" /\ calls[i].target = cfg.selfID /\ calls[i].res = "ok")
                => ReplacementStartedBefore(i)

\* CreateAndStartContainer has returned an error for the self-update of call i's
\* container and the rollback is over
SelfUpdateFailedAt(i) ==
    /\ calls[i].by = "CreateAndStartContainer"
    /\ calls[i].res = "err"
    /\ pc # "selfRollback"

\* C17: if the create, network-connect or start of the self-update replacement
\* fails, then afterwards the self container holds its original name again, the
\* process has not exited, an error notification has been sent and no other
\* container holds the original name.
C17_SelfRollback ==
    \A i \in Idx : SelfUpdateFailedAt(i) =>
        LET self == calls[i].for
        IN /\ daemon[self].Name = OrigName(self)
           /\ daemon[self].State = "running"
           /\ pc = "failed"
           /\ cfg.notifier => /\ notes # <<>>
                              /\ notes[Len(notes)].kind = "error"
                              /\ notes[Len(notes)].group = calls[i].group
           /\ \A id \in LiveIds \ {self} : daemon[id].Name # OrigName(self)

\* the replacements created by the self-update of the updater's container
NewSelves ==
    {calls[i].target : i \in {j \in Idx : /\ calls[j].by = "CreateAndStartContainer"
                                          /\ calls[j].for = cfg.selfID
                                          /\ calls[j].op = "create"
                                          /\ calls[j].res = "ok"}}

\* the old and a new instance of the updater are running
BothRunning ==
    /\ cfg.selfID # ""
    /\ daemon[cfg.selfID].State = "running"
    /\ \E n \in NewSelves : daemon[n].State = "running"

\* the self-update has come to its end with the stop call of the old self
SelfUpdateDone(res) ==
    /\ pc = "exited"
    /\ calls[Len(calls)].by = "UpdateGroups"
    /\ calls[Len(calls)].op = "stop"
    /\ calls[Len(calls)].res = res

\* C18 as claimed: the old and the new instance run together only between the
\* start of the replacement and the stop of the original, and once the self-update
\* has finished the old instance is stopped and stays stopped, whatever its restart
\* policy and whether or not the stop call succeeded.
C18_NeverTwoInstances ==
    /\ BothRunning => pc \in {"selfNotify", "selfStop"}
    /\ (SelfUpdateDone("ok") \/ SelfUpdateDone("err")) =>
          daemon[cfg.selfID].State # "running"

\* C18 (amended): the old and the new instance run together between the start of
\* the replacement and the stop of the original; when the stop call succeeded the
\* old (renamed) instance is stopped and stays stopped whatever its restart policy;
\* when the stop call failed the process ends with os.Exit(0), and the old
\* instance stays down only under a restart policy other than always and
\* unless-stopped: under those the daemon restarts it and both instances run.
\* Never do two instances hold the original name.
C18_StoppedUnlessStopFailed ==
    /\ BothRunning =>
          \/ pc \in {"selfNotify", "selfStop"}
          \/ /\ SelfUpdateDone("err")
             /\ daemon[cfg.selfID].RestartPolicy \in {"always", "unless-stopped"}
    /\ SelfUpdateDone("ok") => daemon[cfg.selfID].State = "exited"
    /\ (SelfUpdateDone("err") /\ daemon[cfg.selfID].RestartPolicy = "no") =>
          daemon[cfg.selfID].State = "died"
    /\ \A a, b \in LiveIds : daemon[a].Name = daemon[b].Name => a = b

C18_Witness ==
    /\ SelfUpdateDone("ok")
    /\ daemon[cfg.selfID].RestartPolicy = "unless-stopped"
    /\ daemon[cfg.selfID].State = "exited"
    /\ \E n \in NewSelves : daemon[n].State = "running" /\ daemon[n].Name = OrigName(cfg.selfID)

-----------------------------------------------------------------------------
(* Pulls *)

\* the pulls issued while group k was handled
PullsIn(k) == {i \in Idx : calls[i].op = "pull" /\ calls[i].group = k}

\* group k has been handled to its end and its containers were recreated
GroupRecreated(k) ==
    /\ pc \in {"loop", "done"}
    /\ k \in DOMAIN groups /\ k \notin todo
    /\ \E i \in Idx : calls[i].group = k /\ calls[i].op = "start" /\ calls[i].res = "ok"

\* C19 as claimed: for a group whose digest changed the image is pulled exactly
\* once in the run, however many containers the group has.
C19_OnePullPerGroup ==
    \A k \in DOMAIN groups : GroupRecreated(k) => Cardinality(PullsIn(k)) = 1

\* C19 (amended): UpdateGroups pulls the image of a group exactly once, before the
\* comparison; every invocation of RecreateContainer, for a container of the group
\* or for a network dependent, pulls the image of its container once more before
\* it stops anything. A recreated group of n containers therefore sees at least
\* 1 + n pulls: three in the two-container compose scenario.
C19_PullPerRecreation ==
    /\ \A k \in DOMAIN groups :
         Cardinality({i \in PullsIn(k) : calls[i].by = "UpdateGroups"}) <= 1
    /\ \A i \in Idx : (ByRecreate(i) /\ calls[i].op = "stop") =>
         /\ ByRecreate(i-1) /\ calls[i-1].op = "pull" /\ calls[i-1].res = "ok"
         /\ calls[i-1].for = calls[i].for
         /\ calls[i-1].target = daemon[calls[i].for].Image
    /\ \A k \in DOMAIN groups : GroupRecreated(k) =>
         /\ Cardinality({i \in PullsIn(k) : calls[i].by = "UpdateGroups"}) = 1
         /\ \A m \in MemberIds(k) :
              \E i \in PullsIn(k) : ByRecreate(i) /\ calls[i].for = m
         /\ Cardinality(PullsIn(k)) >= 1 + Len(groups[k])

C19_Witness ==
    /\ pc = "done"
    /\ \E k \in DOMAIN groups :
         /\ GroupRecreated(k)
         /\ Len(groups[k]) = 2
         /\ Cardinality(PullsIn(k)) = 3
         /\ \A i \in PullsIn(k) : calls[i].target = "nginx:latest" /\ calls[i].res = "ok"
         /\ Cardinality(DOMAIN recreated) = 2

-----------------------------------------------------------------------------
(* One container at a time *)

\* call i belongs to the recreation of a container (RecreateContainer, the
\* self-update branch, or the lookup of the dependents that follows a recreation)
OnContainer(i) ==
    calls[i].by \in {"RecreateContainer", "CreateAndStartContainer", "FindNetworkDependents"}
    \/ (calls[i].by = "UpdateGroups" /\ calls[i].op \in {"rename", "stop"})

\* the position of member id in the list of group k
PosInGroup(k, id) == CHOOSE n \in 1..Len(groups[k]) : groups[k][n].ID = id

\* C20: updates are strictly sequential. A RecreateContainer that has begun is not
\* interleaved with any other call; the containers of a group are handled in the
\* order of the group's list, each one (with its dependents) finished before the
\* next; the calls made for one group are contiguous; and a container touched
\* while another group is handled is a network dependent.
C20_Sequential ==
    /\ \A i \in 1..(Len(calls) - 1) :
         (/\ calls[i].by \in {"RecreateContainer", "CreateAndStartContainer"}
          /\ calls[i].res = "ok"
          /\ calls[i].op \in {"pull", "stop", "remove", "create", "connect"})
         => /\ calls[i+1].by = calls[i].by
            /\ calls[i+1].for = calls[i].for
    /\ \A k \in DOMAIN groups : \A a, b \in MemberIds(k) :
         PosInGroup(k, a) < PosInGroup(k, b) =>
            \A i, j \in Idx :
               (/\ OnContainer(i) /\ calls[i].group = k /\ calls[i].for = a
                /\ OnContainer(j) /\ calls[j].group = k /\ calls[j].for = b) => i < j
    /\ \A i \in 1..(Len(calls) - 1) :
         calls[i+1].group # calls[i].group =>
            \A l \in (i+2)..Len(calls) : calls[l].group # calls[i].group
    /\ \A i \in Idx : (IsMutation(i) /\ calls[i].for \notin MemberIds(calls[i].group)) =>
         /\ ByRecreate(i)
         /\ HasPrefix(daemon[calls[i].for].NetworkMode, "container:")

C20_Witness ==
    /\ pc = "done"
    /\ \E k \in DOMAIN groups :
         /\ Len(groups[k]) = 2
         /\ MemberIds(k) \subseteq DOMAIN recreated
         /\ groups[k][1].ID = OldId(2)
         /\ \E i \in Idx : /\ calls[i].group = k /\ calls[i].op = "start"
                           /\ calls[i].res = "ok" /\ calls[i].for \notin MemberIds(k)


-----------------------------------------------------------------------------
(* C21 *)

RunOver(r) == fnOut[r].status \in {"done", "failed"}

UpdatedIn(r) == SeqToSet(fnOut[r].updated)

\* C21 (as stated): two runs over the same group mapping and the same daemon
\* behaviour visit the groups in the same order, so that when both are over the
\* same groups have been updated
C21_SameOrder ==
    (pc = "range" /\ RunOver("a") /\ RunOver("b")) =>
        /\ fnOut["a"].updated = fnOut["b"].updated
        /\ UpdatedIn("a") = UpdatedIn("b")

\* C21 (amended): every run visits each group at most once and never updates the
\* group that fails; two runs over the same group mapping update the same
\* groups when no group fails (all of them), while after a fatal error the
\* groups already updated are some subset of the others, not a determined one
C21_SameSetWithoutFailure ==
    pc = "range" =>
        \A r \in Runs :
            /\ \A i, j \in 1..Len(fnOut[r].updated) :
                   i # j => fnOut[r].updated[i] # fnOut[r].updated[j]
            /\ UpdatedIn(r) \subseteq fnIn.keys \ {fnIn.fails}
            /\ fnOut[r].status = "done" => UpdatedIn(r) = fnIn.keys
            /\ fnOut[r].status = "failed" => fnIn.fails \in fnIn.keys

C21_Witness ==
    /\ pc = "range"
    /\ fnIn.fails # ""
    /\ fnOut["a"].status = "failed"
    /\ fnOut["b"].status = "failed"
    /\ UpdatedIn("a") # UpdatedIn("b")


-----------------------------------------------------------------------------
(* C22 *)

RefOf(mode) == TrimPrefix(mode, "container:")

\* the keys of the Recreation Map that the reference matches: the key itself,
\* a prefix of a key, or a continuation of a key's short id
MapMatches(ref) ==
    {oldID \in DOMAIN recreated :
        \/ oldID = ref
        \/ HasPrefix(oldID, ref)
        \/ HasPrefix(ref, shortID(oldID))}

\* C22: when the reference of a container:<ref> mode matches a key of the
\* Recreation Map, exactly or by short-id prefix, the result is container:<new id
\* mapped to a matching key> (the one of the exact key when there is one),
\* whatever the daemon would answer for the reference
C22_MapPreferred ==
    (pc = "resolve" /\ fnOut.n >= 1 /\ HasPrefix(fnIn, "container:")
        /\ MapMatches(RefOf(fnIn)) # {}) =>
        /\ \E oldID \in MapMatches(RefOf(fnIn)) :
               fnOut.first = "container:" \o recreated[oldID]
        /\ RefOf(fnIn) \in DOMAIN recreated =>
               fnOut.first = "container:" \o recreated[RefOf(fnIn)]

\* the reference matches a key by prefix only and the daemon resolves it to
\* another container
C22_Witness ==
    /\ pc = "resolve"
    /\ fnOut.n >= 1
    /\ HasPrefix(fnIn, "container:")
    /\ MapMatches(RefOf(fnIn)) # {}
    /\ RefOf(fnIn) \notin DOMAIN recreated
    /\ InspectRef(RefOf(fnIn)) # {}
    /\ \A id \in InspectRef(RefOf(fnIn)) : fnOut.first # "container:" \o id


-----------------------------------------------------------------------------
(* C23 *)

\* the mode names a live container by its full id
IsCurrent(mode) ==
    /\ HasPrefix(mode, "container:")
    /\ Len(RefOf(mode)) = IdLen
    /\ RefOf(mode) \in LiveIds

\* C23: a mode that names a live container by its current full id is returned
\* unchanged, and resolving the result of a resolution again returns the same
\* result
C23_Idempotent ==
    pc = "resolve" =>
        /\ (fnOut.n >= 1 /\ IsCurrent(fnIn)) => fnOut.first = fnIn
        /\ fnOut.n = 2 => fnOut.second = fnOut.first

\* no live container shares its short id with a container recreated in the run
ShortIdsApart ==
    \A id \in LiveIds, oldID \in DOMAIN recreated : shortID(id) # shortID(oldID)

\* a container of the map was replaced again: the id it maps to is a key too
Replaced(m) == {id \in DOMAIN m : m[id] \in DOMAIN m}

\* resolution is idempotent in the states where no container was recreated twice
\* and the short ids are apart
IdempotentWhenApart ==
    (pc = "resolve" /\ ShortIdsApart /\ Replaced(recreated) = {}) => C23_Idempotent

\* "no entry of the map leads to the key of another entry" does not hold of a
\* run: db, recreated as a member of its group, is recreated once more as a
\* dependent of web when web follows in the same group
NoneReplacedTwice == Replaced(recreated) = {}


-----------------------------------------------------------------------------
(* C24 *)

\* the containers of the daemon's list (running or not) that carry the name
NameMatches(ref) ==
    {id \in LiveIds : TrimPrefix(daemon[id].Name, "/") = ref \/ daemon[id].Name = ref}

\* nothing resolves the reference: no map key, no inspect, no name
Unresolvable(mode) ==
    /\ HasPrefix(mode, "container:")
    /\ MapMatches(RefOf(mode)) = {}
    /\ InspectRef(RefOf(mode)) = {}
    /\ NameMatches(RefOf(mode)) = {}

\* C24: a mode that is not of the form container:<ref> is returned unchanged, and
\* so is a container:<ref> mode whose reference is in the Recreation Map neither
\* exactly nor by prefix, cannot be inspected and matches no container name
C24_Frame ==
    (pc = "resolve" /\ fnOut.n >= 1) =>
        /\ ~HasPrefix(fnIn, "container:") => fnOut.first = fnIn
        /\ Unresolvable(fnIn) => fnOut.first = fnIn

\* a stale full id that nothing resolves was handed in and came back
C24_Witness ==
    /\ pc = "resolve"
    /\ fnOut.n >= 1
    /\ Unresolvable(fnIn)
    /\ Len(RefOf(fnIn)) = IdLen
    /\ DOMAIN recreated # {}
    /\ fnOut.first = fnIn


-----------------------------------------------------------------------------
(* C25 *)

\* the network names of the model in lexicographic order
NetworkOrder == <<"backend", "frontend">>

LexFirst(S) ==
    NetworkOrder[CHOOSE i \in 1..Len(NetworkOrder) :
                    /\ NetworkOrder[i] \in S
                    /\ \A j \in 1..(i - 1) : NetworkOrder[j] \notin S]

\* a replacement has been created and is not started yet
Building == pc \in {"rcConnect", "rcStart"} /\ rc.newID \in DOMAIN daemon

Attached == DOMAIN daemon[rc.newID].Networks

\* C25 (as stated): the network passed to the create call of a container on
\* several networks is the lexicographically first one, on every run
C25_LexFirstPrimary ==
    (Building /\ Cardinality(DOMAIN rc.c.Networks) > 1 /\ Cardinality(Attached) = 1) =>
        Attached = {LexFirst(DOMAIN rc.c.Networks)}

\* C25 (amended): exactly one of the snapshot's networks is passed to the create
\* call, whichever the range meets first; the others are connected afterwards,
\* each once and with the snapshot's endpoint settings, so that the replacement
\* is started on all the networks of the snapshot
C25_OnePrimaryRestConnected ==
    Building =>
        /\ Attached \cup SeqToSet(rc.addl) = DOMAIN rc.c.Networks
        /\ Attached \cap SeqToSet(rc.addl) = {}
        /\ \A i, j \in 1..Len(rc.addl) : i # j => rc.addl[i] # rc.addl[j]
        /\ DOMAIN rc.c.Networks # {} => Attached # {}
        /\ \A n \in Attached : daemon[rc.newID].Networks[n] = rc.c.Networks[n]
        /\ pc = "rcStart" => Attached = DOMAIN rc.c.Networks

\* the create call was made with the network that is not the first in
\* lexicographic order
C25_Witness ==
    /\ Building
    /\ Cardinality(DOMAIN rc.c.Networks) > 1
    /\ Attached = {"frontend"}
    /\ rc.addl = <<"backend">>


-----------------------------------------------------------------------------
(* C26 *)

\* this step is the failed return of the RecreateContainer of a group member
MemberFailsNow ==
    /\ rc.kind = "member"
    /\ rc'.kind = "none"
    /\ ~(Len(calls') > Len(calls) /\ calls'[Len(calls')].op = "start"
                                  /\ calls'[Len(calls')].res = "ok")

\* the run ended on the failed recreation of a member of the current group
EndedOnMemberFailure ==
    /\ pc = "failed"
    /\ calls # <<>>
    /\ ByRecreate(Len(calls))
    /\ calls[Len(calls)].res \in {"err", "in progress"}
    /\ calls[Len(calls)].for \in MemberIds(cur.groupKey)

\* C26: a failed recreation of a group's container ends the run: UpdateGroups
\* sends one error notification for the group (when a notifier is configured),
\* returns the error, adds nothing to the Recreation Map and leaves the groups
\* and containers still to come alone; nothing happens after the return (no
\* retry, no later recreation), and the group has no success notification
C26_MemberFailureAborts ==
    /\ [][MemberFailsNow =>
            /\ pc' = "failed"
            /\ notes' = IF cfg.notifier
                        THEN Append(notes, [kind |-> "error", group |-> cur.groupKey,
                                            msg |-> "Failed to recreate container"])
                        ELSE notes
            /\ recreated' = recreated
            /\ todo' = todo
            /\ cur' = cur
            /\ Len(calls') <= Len(calls) + 1]_vars
    /\ [][pc # "failed"]_vars
    /\ [](EndedOnMemberFailure =>
            /\ \A n \in NotesFor(cur.groupKey) : notes[n].kind = "error"
            /\ Cardinality(NotesFor(cur.groupKey)) = IF cfg.notifier THEN 1 ELSE 0)

\* the recreation of a member failed while another group was still to come
C26_Witness ==
    /\ EndedOnMemberFailure
    /\ cfg.notifier
    /\ todo # {}
    /\ calls[Len(calls)].op \in {"create", "connect", "start"}
    /\ notes[Len(notes)].kind = "error"
    /\ notes[Len(notes)].group = cur.groupKey


-----------------------------------------------------------------------------
(* C27 *)

\* the digest UpdateGroups read for group k before the pull ("" when the lookup
\* failed) and the one it read after the pull
OldDigestOf(k) ==
    LET S == {i \in GroupLookups(k) : IsOldLookup(i) /\ calls[i].res = "ok"}
    IN IF S = {} THEN "" ELSE calls[CHOOSE i \in S : TRUE].val

NewDigestOf(k) ==
    LET S == {i \in GroupLookups(k) : IsNewLookup(i) /\ calls[i].res = "ok"}
    IN IF S = {} THEN "" ELSE calls[CHOOSE i \in S : TRUE].val

\* UpdateGroups returned an error while it handled group k
GroupFailed(k) == pc = "failed" /\ cur.groupKey = k

\* C27: every notification is for a group of the run and no group has more than
\* one; with a notifier configured, a group whose digest changed and whose
\* containers were all recreated has one success notification with the group
\* key, the image, the old and the new digest, and a group whose update failed
\* has one error notification and no success; an unchanged group and a group of
\* a dry run that did not fail have none
C27_OneNotePerGroup ==
    /\ \A n \in 1..Len(notes) : notes[n].group \in DOMAIN groups
    /\ \A k \in DOMAIN groups :
         /\ Cardinality(NotesFor(k)) <= 1
         /\ ~cfg.notifier => NotesFor(k) = {}
         /\ (cfg.notifier /\ GroupRecreated(k)) =>
               /\ NotesFor(k) # {}
               /\ \A n \in NotesFor(k) :
                     notes[n] = [kind |-> "update", group |-> k,
                                 image |-> groups[k][1].Image,
                                 old |-> OldDigestOf(k), new |-> NewDigestOf(k)]
         /\ (cfg.notifier /\ GroupFailed(k)) =>
               /\ NotesFor(k) # {}
               /\ \A n \in NotesFor(k) : notes[n].kind = "error"
         /\ (Unchanged(k) \/ (cfg.dryRun /\ ~GroupFailed(k))) => NotesFor(k) = {}

\* one group was found unchanged, another was recreated and notified, with the
\* digest it had before the pull
C27_Witness ==
    /\ pc = "done"
    /\ cfg.notifier
    /\ \E k, u \in DOMAIN groups :
         /\ Unchanged(u)
         /\ GroupRecreated(k)
         /\ NotesFor(u) = {}
         /\ Len(notes) = 1
         /\ notes[1].group = k
         /\ notes[1].old # ""
         /\ notes[1].old # notes[1].new


-----------------------------------------------------------------------------
(* C28 *)

\* the calls that ended a successful RecreateContainer
Successes == {i \in Idx : ByRecreate(i) /\ calls[i].op = "start" /\ calls[i].res = "ok"}

\* C28: the Recreation Map is empty when the run starts, and at every point its
\* keys are exactly the ids of the containers, group members and dependents,
\* that RecreateContainer has replaced so far in the run, each mapped to the id
\* of its replacement; no container is replaced twice and a failed recreation
\* adds nothing
C28_MapInvariant ==
    /\ pc = "start" => recreated = <<>>
    /\ DOMAIN recreated = {calls[i].for : i \in Successes}
    /\ \A i \in Successes : recreated[calls[i].for] = calls[i].target
    /\ \A i, j \in Successes : i # j => calls[i].for # calls[j].for
    /\ \A id \in DOMAIN recreated :
         /\ recreated[id] \notin OldIds
         /\ recreated[id] # id
         /\ \/ \E k \in DOMAIN groups : id \in MemberIds(k)
            \/ HasPrefix(daemon[id].NetworkMode, "container:")

\* a member has its entry, and the failed recreation of its dependent left none
C28_Witness ==
    /\ Cardinality(DOMAIN recreated) = 1
    /\ pc \in {"deps", "loop", "done"}
    /\ \E i \in Idx :
         /\ ByRecreate(i)
         /\ calls[i].op \in {"create", "connect", "start"}
         /\ calls[i].res = "err"
         /\ calls[i].for \notin DOMAIN recreated
         /\ daemon[calls[i].for].NetworkMode \in
               {"container:" \o id : id \in DOMAIN recreated}


-----------------------------------------------------------------------------
(* C29 *)

\* RecreateContainer failed at call i, after it had created the replacement
PartialFailedAt(i) ==
    /\ ByRecreate(i)
    /\ calls[i].op \in {"connect", "start"}
    /\ calls[i].res = "err"

-----------------------------------------------------------------------------
(* C30 *)

\* the remove call of RecreateContainer failed, and not because a removal was
\* already in progress
RemoveFailedAt(i) ==
    /\ ByRecreate(i)
    /\ calls[i].op = "remove"
    /\ calls[i].res = "err"

RemoveFailsNow ==
    /\ pc = "rcRemove"
    /\ Len(calls') = Len(calls) + 1
    /\ calls'[Len(calls')].op = "remove"
    /\ calls'[Len(calls')].res = "err"

-----------------------------------------------------------------------------
(* C31 *)

\* this step is the return of waitForContainerRemoval without an error
WaitSucceedsNow == pc = "rcWait" /\ pc' = "rcCreate"

\* this step is the return of waitForContainerRemoval with the timeout error
WaitTimesOutNow == pc = "rcWait" /\ rc'.kind = "none"

\* C31: a removal reported as already in progress does not make RecreateContainer
\* fail: it waits; waitForContainerRemoval reports success only when the old
\* container no longer exists and the timeout only when it still does, nothing is
\* created after a timeout, and the create call follows only once the old
\* container is gone
C31_RemovalRace ==
    /\ [][(pc = "rcRemove" /\ Len(calls') > Len(calls)
              /\ calls'[Len(calls')].res = "in progress") => pc' = "rcWait"]_vars
    /\ [][WaitSucceedsNow => ~Exists(rc.c.ID)]_vars
    /\ [][WaitTimesOutNow => (Exists(rc.c.ID) /\ daemon' = daemon /\ calls' = calls)]_vars
    /\ []((pc = "rcCreate" /\ rc.kind # "self") => ~Exists(rc.c.ID))


\* the parts of C31 that hold: "already in progress" leads to the wait, and the
\* timeout error is returned only while the container exists, creating nothing
WaitOtherwiseSound ==
    /\ [][(pc = "rcRemove" /\ Len(calls') > Len(calls)
              /\ calls'[Len(calls')].res = "in progress") => pc' = "rcWait"]_vars
    /\ [][WaitTimesOutNow => (Exists(rc.c.ID) /\ daemon' = daemon /\ calls' = calls)]_vars

-----------------------------------------------------------------------------
(* C32 *)

\* the three kinds of network mode that reject a hostname
RejectsHostname(mode) == mode = "host" \/ mode = "none" \/ HasPrefix(mode, "container:")

\* C32: the creation parameters carry the snapshot's hostname when the snapshot's
\* network mode is not host, not none and does not begin with container:, and an
\* empty hostname for those three; the mode that decides is the snapshot's
C32_HostnameRule ==
    (pc = "hostname" /\ fnOut.done) =>
        /\ ~RejectsHostname(fnIn.NetworkMode) => fnOut.Hostname = fnIn.Hostname
        /\ RejectsHostname(fnIn.NetworkMode) => fnOut.Hostname = ""

\* a snapshot on the host network with a hostname of its own
C32_Witness ==
    /\ pc = "hostname"
    /\ fnOut.done
    /\ fnIn.NetworkMode = "host"
    /\ fnIn.Hostname = "repull-host"
    /\ fnOut.Hostname = ""


-----------------------------------------------------------------------------
(* C33 *)

\* call i is the successful start that ends a recreation
StartedAt(i) ==
    /\ calls[i].by \in {"RecreateContainer", "CreateAndStartContainer"}
    /\ calls[i].op = "start"
    /\ calls[i].res = "ok"

ConnectsOf(id) == {j \in Idx : calls[j].op = "connect" /\ calls[j].target = id}

\* C33: after a successful recreation the new container is on exactly the networks
\* of the snapshot, each with the snapshot's endpoint settings; one network came
\* with the create call and every other one with one connect call of its own,
\* none failed, and all connect calls lie after the create and before the start
C33_NetworksRestored ==
    \A i \in Idx : StartedAt(i) =>
        LET new == calls[i].target
            old == calls[i].for
            n == Cardinality(DOMAIN daemon[old].Networks)
        IN /\ daemon[new].Networks = daemon[old].Networks
           /\ Cardinality(ConnectsOf(new)) = IF n = 0 THEN 0 ELSE n - 1
           /\ \A j \in ConnectsOf(new) : calls[j].res = "ok" /\ j < i
           /\ \E c \in 1..(i - 1) :
                 /\ calls[c].op = "create" /\ calls[c].target = new /\ calls[c].res = "ok"
                 /\ \A j \in ConnectsOf(new) : c < j

\* web, on two networks, was recreated with one connect call
C33_Witness ==
    \E i \in Idx : /\ StartedAt(i)
                   /\ ByRecreate(i)
                   /\ Cardinality(DOMAIN daemon[calls[i].for].Networks) = 2
                   /\ Cardinality(ConnectsOf(calls[i].target)) = 1
                   /\ daemon[calls[i].target].State = "running"

-----------------------------------------------------------------------------
(* C34 *)

\* the container id the cgroup file holds, "" when it holds none
CgroupID ==
    IF fnIn.cgroup.err THEN "" ELSE firstContainerID(SplitLines(fnIn.cgroup.data))

AskedSet == {fnOut.asked[i] : i \in 1..Len(fnOut.asked)}

\* C34: when the cgroup file holds a 64-character lower-case hex id, isSelf(id)
\* is exactly "id equals it", whatever the hostname is or becomes; otherwise
\* isSelf(id) is "id starts with the hostname read at the first call"; and one
\* id always gets the same answer.
C34_SelfDetection ==
    pc = "self" =>
        /\ \A a \in AskedSet :
             IF CgroupID # "" THEN a.self = (a.id = CgroupID)
             ELSE a.self = HasPrefix(a.id, fnOut.host)
        /\ \A a, b \in AskedSet : a.id = b.id => a.self = b.self
        /\ fnOut.detected => cfg.ownID = IF CgroupID # "" THEN CgroupID ELSE fnOut.host

\* the cgroup file names web although the hostname is a custom one that has
\* changed since: web is self, its twin (same first 63 characters) is not
C34_Witness ==
    /\ pc = "self"
    /\ CgroupID = OldId(1)
    /\ fnOut.host = "repull-host"
    /\ fnIn.hostname = shortID(OldId(1))
    /\ [id |-> OldId(1), self |-> TRUE] \in AskedSet
    /\ [id |-> Twin(OldId(1)), self |-> FALSE] \in AskedSet

-----------------------------------------------------------------------------
(* C35 *)

\* C35 as claimed: the containers of a group all have the image of the group's
\* first container, so a member that is recreated is one whose own image is
\* the image whose digest was compared.
C35_GroupSharesImage ==
    /\ \A k \in DOMAIN groups :
         \A i, j \in 1..Len(groups[k]) : groups[k][i].Image = groups[k][j].Image
    /\ rc.kind = "member" => rc.c.Image = cur.imageName

\* the weaker fact: a member is recreated only in a group whose first
\* container's image changed its digest
MemberOnlyAfterFirstImageChanged ==
    rc.kind = "member" =>
        /\ cur.imageName = cur.containers[1].Image
        /\ cur.oldDigest # cur.newDigest

-----------------------------------------------------------------------------
(* C36 *)

\* a replacement of container id was created and started in the run
StartedFor(id) ==
    \E i \in Idx : calls[i].for = id /\ calls[i].op = "start" /\ calls[i].res = "ok"

UpdateNotes == {n \in 1..Len(notes) : notes[n].kind = "update"}

\* C36 as claimed: when a success notification for a group has been sent, every
\* container of the group has been recreated in the run, also in a group that
\* holds the updater's own container.
C36_NoteAfterWholeGroup ==
    \A n \in UpdateNotes : \A id \in MemberIds(notes[n].group) : StartedFor(id)

\* the part that holds: in a group without the updater's own container
NoteAfterWholeGroupWithoutSelf ==
    \A n \in UpdateNotes :
        (\A id \in MemberIds(notes[n].group) : ~isSelf(id)) =>
            \A id \in MemberIds(notes[n].group) : StartedFor(id)

-----------------------------------------------------------------------------
(* C37 *)

\* call i belongs to a RecreateContainer invocation on a container that an
\* earlier invocation of the run has already replaced
OnReplaced(i) ==
    /\ ByRecreate(i)
    /\ \E j \in 1..(i - 1) :
         /\ ByRecreate(j)
         /\ calls[j].for = calls[i].for
         /\ calls[j].op = "start"
         /\ calls[j].res = "ok"

\* C37 as claimed: RecreateContainer is never invoked on a container that the
\* run has already replaced, so the run never ends on a failed stop of such a
\* container.
C37_NeverOnReplaced ==
    /\ \A i \in Idx : ~OnReplaced(i)
    /\ pc = "failed" =>
         ~(\E i \in Idx : OnReplaced(i) /\ calls[i].op = "stop" /\ calls[i].res = "err")

\* what the second invocation does: it pulls, fails at the stop and changes
\* nothing
SecondInvocationOnlyFailsStop ==
    \A i \in Idx :
        OnReplaced(i) =>
            \/ calls[i].op = "pull"
            \/ calls[i].op = "stop" /\ calls[i].res = "err"

-----------------------------------------------------------------------------
(* C38 *)

KnownIds == LiveIds \cup DOMAIN recreated \cup {recreated[k] : k \in DOMAIN recreated}

\* the containers a reference denotes, as the daemon reads a reference: a full
\* id first, then a name, then the beginning of an id
Referenced(ref) ==
    IF ref \in KnownIds THEN {ref}
    ELSE IF NameMatches(ref) # {} THEN NameMatches(ref)
    ELSE {id \in KnownIds : HasPrefix(id, ref)}

\* a container and what replaced it in the run
Replacements(id) ==
    IF id \in DOMAIN recreated THEN {id, recreated[id], Latest(recreated, id)} ELSE {id}

Related(ref) == UNION {Replacements(id) : id \in Referenced(ref)}

\* C38 as claimed: the result of resolving container:<ref> is the mode itself
\* or names the referenced container or its replacement, never another
\* container whose old id begins like the reference, and it is the same for
\* every order in which the map is ranged over.
C38_NoUnrelatedRedirect ==
    (pc = "resolve" /\ fnOut.n >= 1 /\ HasPrefix(fnIn, "container:")) =>
        /\ fnOut.first \in {fnIn} \cup {"container:" \o id : id \in Related(RefOf(fnIn))}
        /\ Cardinality(resolveNetworkMode(fnIn, recreated)) = 1

\* the reference is a key of the map, or no key begins like it or shares its
\* first 12 characters
KeysApart(ref) ==
    \A oldID \in DOMAIN recreated :
        oldID = ref \/ (~HasPrefix(oldID, ref) /\ ~HasPrefix(ref, shortID(oldID)))

\* the part that holds: with the keys apart from the reference
RelatedWhenApart ==
    (pc = "resolve" /\ KeysApart(RefOf(fnIn))) => C38_NoUnrelatedRedirect

-----------------------------------------------------------------------------
(* C39 *)

\* the ids isSelf has accepted so far
SelfIds == {a.id : a \in {b \in AskedSet : b.self}}

\* C39 as claimed: isSelf accepts at most one container id, also when the own
\* id is the hostname and the hostname is empty or very short.
C39_AtMostOneSelf == pc = "self" => Cardinality(SelfIds) <= 1

\* the part that holds: with a container id in the cgroup file
OneSelfWithCgroupID == (pc = "self" /\ CgroupID # "") => Cardinality(SelfIds) <= 1

-----------------------------------------------------------------------------
(* C40 *)

\* this step is a pull or a stop of RecreateContainer that fails
FailsEarlyNow ==
    /\ pc \in {"rcPull", "rcStop"}
    /\ rc.kind \in {"member", "dep"}
    /\ Len(calls') = Len(calls) + 1
    /\ calls'[Len(calls')].res = "err"

\* the failed pull or stop of an invocation of RecreateContainer
EarlyFailedAt(i) ==
    /\ ByRecreate(i)
    /\ calls[i].op \in {"pull", "stop"}
    /\ calls[i].res = "err"

====
